---- MODULE Spec2Model ----
(***************************************************************************)
(* GeekFit progress engine.                                                *)
(*                                                                         *)
(* The repository holds two applications.  src-tauri/ is the SQLite-backed *)
(* engine: the Tauri commands and the tray quick-log handler of lib.rs     *)
(* share one Mutex<Connection>; the CLI of bin/cli.rs is a separate        *)
(* process with its own Connection on the same database file.  src/ is the *)
(* badge engine: UserProgress (models.rs) kept behind Storage (storage.rs) *)
(* and saved as a JSON file.  Variable app says which one is running.      *)
(*                                                                         *)
(* Calendar dates are day numbers (1, 2, ...); NULL stands for an absent   *)
(* date or timestamp.  Timestamps are kept at the precision of one day.    *)
(***************************************************************************)
EXTENDS Integers, Sequences, FiniteSets, TLC

\* ------------------------------------------------------------------------
\* Bounds of the model
\* ------------------------------------------------------------------------

\* length of the prefix of the default catalog that is seeded
NumSeed == 1
\* log actions are enabled while the log table holds fewer rows
MaxLogs == 2
\* the clock stays within days 1..MaxDay
MaxDay == 2
\* exercise ids handed out by AUTOINCREMENT stay within 1..MaxId: room for
\* the seed, one re-seed and one added exercise
MaxId == NumSeed + NumSeed + 1

NULL == 0

\* ------------------------------------------------------------------------
\* XP curve (lib.rs 73-90, duplicated in cli.rs 51-68)
\* ------------------------------------------------------------------------

\* XpTable[L] = floor(sum_{i=1}^{L-1} (i + 300 * 2^(i/7)) / 4) evaluated in
\* IEEE double arithmetic as the loop of xp_for_level does, for L = 1..100.
XpTable ==
  << 0, 83, 174, 276, 389, 513, 650, 802, 970, 1155,
     1359, 1585, 1834, 2109, 2412, 2747, 3117, 3525, 3975, 4472,
     5021, 5626, 6294, 7031, 7845, 8742, 9733, 10827, 12034, 13366,
     14836, 16459, 18251, 20228, 22410, 24819, 27477, 30412, 33652, 37228,
     41176, 45533, 50344, 55654, 61517, 67988, 75132, 83019, 91726, 101339,
     111950, 123666, 136599, 150878, 166642, 184046, 203260, 224472, 247892, 273748,
     302294, 333810, 368605, 407021, 449434, 496261, 547960, 605039, 668057, 737634,
     814452, 899264, 992902, 1096285, 1210428, 1336450, 1475588, 1629208, 1798815, 1986076,
     2192826, 2421095, 2673122, 2951381, 3258602, 3597800, 3972302, 4385785, 4842304, 5346340,
     5902840, 6517262, 7195638, 7944623, 8771568, 9684586, 10692638, 11805616, 13034440, 14391170 >>

\* the highest level (lib.rs 86)
MaxLevel == 99

\* a variant that reads the table one level too low
xp_for_level_shifted(level) == IF level <= 1 THEN 0 ELSE XpTable[level - 1]

xp_for_level(level) == IF level <= 1 THEN 0 ELSE XpTable[level]

\* a variant of the loop that needs more than the threshold
RECURSIVE level_loop_strict(_, _)
level_loop_strict(xp, level) ==
  IF xp_for_level(level + 1) < xp /\ level < 99
  THEN level_loop_strict(xp, level + 1)
  ELSE level

\* a variant of the loop that does not stop at level 99
RECURSIVE level_loop_uncapped(_, _)
level_loop_uncapped(xp, level) ==
  IF level < MaxLevel + 1 /\ xp_for_level(level + 1) <= xp
  THEN level_loop_uncapped(xp, level + 1)
  ELSE level

level_from_xp_uncapped(xp) == level_loop_uncapped(xp, 1)

RECURSIVE level_loop(_, _)
level_loop(xp, level) ==
  IF xp_for_level(level + 1) <= xp /\ level < 99
  THEN level_loop(xp, level + 1)
  ELSE level

level_from_xp(xp) == level_loop(xp, 1)

\* xp_per_rep * reps is an i32 product (lib.rs 335, 1067; cli.rs 145).  It is
\* computed here in two 16-bit halves of b, for 0 <= a < 2^15 and any i32 b
\* (every xp_per_rep of this model is below 2^15): the product is
\* mul_high(a, b) * 2^16 + mul_low(a, b).
Half == 65536

mul_low(a, b) == (a * (b % Half)) % Half

mul_high(a, b) == a * (b \div Half) + (a * (b % Half)) \div Half

\* the product does not fit in an i32: a build with overflow checks (the
\* default of the dev profile) panics at the multiplication
mul_overflows(a, b) == mul_high(a, b) \notin -(Half \div 2) .. (Half \div 2 - 1)

\* the product in a build without overflow checks (the default of the
\* release profile): two's complement wrapping
mul_i32(a, b) ==
  LET hi == mul_high(a, b) % Half
  IN (IF hi >= Half \div 2 THEN hi - Half ELSE hi) * Half + mul_low(a, b)

max(a, b) == IF a >= b THEN a ELSE b

\* ------------------------------------------------------------------------
\* State
\* ------------------------------------------------------------------------

VARIABLES
  app,            \* "tauri" or "egui": which application is running
  clock,          \* the local calendar date (chrono::Local::now())
  exercises,      \* table exercises: id -> row
  exercise_seq,   \* sqlite_sequence of exercises (largest id ever used)
  exercise_logs,  \* table exercise_logs, in insertion order
  user_stats,     \* the single row of table user_stats
  achievements,   \* table achievements: key -> unlocked_at
  last,           \* the last call: what was called and how it ended
  pc,             \* statement-level runs: position of each process
  loc,            \* statement-level runs: locals of each process
  progress,       \* badge engine: Storage.progress (in memory)
  file            \* badge engine: contents of progress.json

tauriVars == <<exercises, exercise_seq, exercise_logs, user_stats, achievements>>
concVars == <<pc, loc>>
eguiVars == <<progress, file>>
vars == <<app, clock, exercises, exercise_seq, exercise_logs, user_stats,
          achievements, last, pc, loc, progress, file>>

\* ------------------------------------------------------------------------
\* Database contents (init_database, lib.rs 94-264)
\* ------------------------------------------------------------------------

\* the first rows of default_exercises (lib.rs 155-189)
\* names are sequences of characters, so that LOWER and LIKE can be computed
Pushups == << "P", "u", "s", "h", "u", "p", "s" >>
ArmCircles == << "A", "r", "m", " ", "C", "i", "r", "c", "l", "e", "s" >>
Situps == << "S", "i", "t", "-", "u", "p", "s" >>
Crunches == << "C", "r", "u", "n", "c", "h", "e", "s" >>

Plank == << "P", "l", "a", "n", "k", " ", "(", "1", "0", " ", "s", "e", "c", ")" >>
LegRaises == << "L", "e", "g", " ", "R", "a", "i", "s", "e", "s" >>

DefaultExercises ==
  << [name |-> Pushups, xp_per_rep |-> 10],
     [name |-> ArmCircles, xp_per_rep |-> 3],
     [name |-> Situps, xp_per_rep |-> 8],
     [name |-> Crunches, xp_per_rep |-> 6],
     [name |-> Plank, xp_per_rep |-> 5],
     [name |-> LegRaises, xp_per_rep |-> 8] >>

SeedCatalog == SubSeq(DefaultExercises, 1, NumSeed)

\* keys of the seeded achievements, in the order check_achievements visits them
AchKeys ==
  << "first_exercise", "skill_10", "skill_25", "skill_50", "total_100",
     "week_streak", "month_streak", "variety", "hundred_pushups" >>

AchKeySet == {AchKeys[i] : i \in 1..Len(AchKeys)}

NewRow(name, xp_per_rep) ==
  [name |-> name, xp_per_rep |-> xp_per_rep, total_xp |-> 0, current_level |-> 1]

\* the database as one value, so that statements are functions on it
DB ==
  [exercises |-> exercises, exercise_seq |-> exercise_seq,
   exercise_logs |-> exercise_logs, user_stats |-> user_stats,
   achievements |-> achievements]

SetDB(d) ==
  /\ exercises' = d.exercises
  /\ exercise_seq' = d.exercise_seq
  /\ exercise_logs' = d.exercise_logs
  /\ user_stats' = d.user_stats
  /\ achievements' = d.achievements

\* INSERT INTO exercises (name, xp_per_rep, total_xp, current_level) with an
\* AUTOINCREMENT id; name is UNIQUE
InsertExercise(d, name, xp_per_rep) ==
  [d EXCEPT !.exercises =
              [i \in DOMAIN d.exercises \cup {d.exercise_seq + 1} |->
                 IF i = d.exercise_seq + 1 THEN NewRow(name, xp_per_rep)
                 ELSE d.exercises[i]],
            !.exercise_seq = d.exercise_seq + 1]

RECURSIVE SeedFrom(_, _)
SeedFrom(d, k) ==
  IF k > Len(SeedCatalog) THEN d
  ELSE SeedFrom(InsertExercise(d, SeedCatalog[k].name, SeedCatalog[k].xp_per_rep), k + 1)

EmptyDB ==
  [exercises |-> << >>, exercise_seq |-> 0, exercise_logs |-> << >>,
   user_stats |-> [current_streak |-> 0, longest_streak |-> 0,
                   last_exercise_date |-> NULL],
   achievements |-> [k \in AchKeySet |-> NULL]]

init_database == SeedFrom(EmptyDB, 1)

\* ------------------------------------------------------------------------
\* SQL statements used by the handlers; each one is atomic on the database
\* ------------------------------------------------------------------------

\* INSERT INTO exercise_logs (exercise_id, reps, xp_earned, logged_at)
InsertLog(d, exercise_id, reps, xp_earned, logged_at) ==
  [d EXCEPT !.exercise_logs =
     Append(@, [exercise_id |-> exercise_id, reps |-> reps,
                xp_earned |-> xp_earned, logged_at |-> logged_at])]

\* UPDATE exercises SET total_xp = ?, current_level = ? WHERE id = ?
UpdateExerciseAll(d, exercise_id, new_xp, new_level) ==
  [d EXCEPT !.exercises =
     [i \in DOMAIN @ |-> [@[i] EXCEPT !.total_xp = new_xp,
                                      !.current_level = new_level]]]

UpdateExercise(d, exercise_id, new_xp, new_level) ==
  IF exercise_id \in DOMAIN d.exercises
  THEN [d EXCEPT !.exercises[exercise_id].total_xp = new_xp,
                 !.exercises[exercise_id].current_level = new_level]
  ELSE d

\* UPDATE user_stats SET current_streak, longest_streak, last_exercise_date
UpdateStats(d, new_streak, new_longest, today) ==
  [d EXCEPT !.user_stats = [current_streak |-> new_streak,
                            longest_streak |-> new_longest,
                            last_exercise_date |-> today]]

\* UPDATE achievements SET unlocked_at = ? WHERE key = ? AND unlocked_at IS NULL
UnlockMutant(d, key, now) == [d EXCEPT !.achievements[key] = now]

Unlock(d, key, now) ==
  IF d.achievements[key] = NULL
  THEN [d EXCEPT !.achievements[key] = now]
  ELSE d

RECURSIVE SumOver(_, _)
SumOver(f, S) ==
  IF S = {} THEN 0
  ELSE LET x == CHOOSE y \in S : TRUE IN f[x] + SumOver(f, S \ {x})

\* SELECT COALESCE(SUM(current_level), 0) FROM exercises
TotalLevel(d) ==
  SumOver([i \in DOMAIN d.exercises |-> d.exercises[i].current_level],
          DOMAIN d.exercises)

\* SELECT COUNT(DISTINCT exercise_id) FROM exercise_logs
DistinctExercises(d) ==
  Cardinality({d.exercise_logs[i].exercise_id : i \in DOMAIN d.exercise_logs})

\* SELECT COALESCE(SUM(reps), 0) FROM exercise_logs el JOIN exercises e
\*   ON el.exercise_id = e.id WHERE e.name = 'Pushups' AND DATE(el.logged_at) = ?
PushupsOn(d, date) ==
  LET rows == {i \in DOMAIN d.exercise_logs :
                 /\ d.exercise_logs[i].exercise_id \in DOMAIN d.exercises
                 /\ d.exercises[d.exercise_logs[i].exercise_id].name = Pushups
                 /\ d.exercise_logs[i].logged_at = date}
  IN SumOver([i \in DOMAIN d.exercise_logs |-> d.exercise_logs[i].reps], rows)

\* ------------------------------------------------------------------------
\* Streak transition (lib.rs 372-389, 1102-1119; cli.rs 182-199)
\* ------------------------------------------------------------------------

\* today is the date read at line 355, yesterday_now the date of the second
\* clock read at line 377, from which one day is subtracted
new_streak_mutant(last_date, current_streak, today, yesterday_now) ==
  IF last_date # NULL
  THEN IF last_date = today \/ last_date = yesterday_now - 1
       THEN current_streak + 1
       ELSE 1
  ELSE 1

new_streak_counts_gap(last_date, current_streak, today, yesterday_now) ==
  IF last_date # NULL
  THEN IF last_date = today THEN current_streak ELSE current_streak + 1
  ELSE 1

new_streak(last_date, current_streak, today, yesterday_now) ==
  IF last_date # NULL
  THEN IF last_date = today
       THEN current_streak
       ELSE IF last_date = yesterday_now - 1
            THEN current_streak + 1
            ELSE 1
  ELSE 1

\* ------------------------------------------------------------------------
\* check_achievements (lib.rs 416-520)
\* ------------------------------------------------------------------------

\* the condition under which the UPDATE of each key is executed
AchCond(d, key, exercise_level, streak, total_level, today_date) ==
  CASE key = "first_exercise" -> Len(d.exercise_logs) = 1
    [] key = "skill_10" -> exercise_level >= 10
    [] key = "skill_25" -> exercise_level >= 25
    [] key = "skill_50" -> exercise_level >= 50
    [] key = "total_100" -> total_level >= 100
    [] key = "week_streak" -> streak >= 7
    [] key = "month_streak" -> streak >= 30
    [] key = "variety" -> DistinctExercises(d) >= 5
    [] key = "hundred_pushups" -> PushupsOn(d, today_date) >= 100

\* the fallible query that precedes the UPDATE of a key, if any
\* (lines 425-427 and 485-491; the century query falls back to 0)
AchQuery(key) ==
  CASE key = "first_exercise" -> "query_log_count"
    [] key = "variety" -> "query_distinct"
    [] OTHER -> "no_query"

\* fail names the statement that returns an error: "none", a query, or the
\* key whose UPDATE fails.  Statements before it have been committed.
RECURSIVE AchFrom(_, _, _, _, _, _, _, _)
AchFrom(d, i, exercise_level, streak, total_level, now, today_date, fail) ==
  IF i > Len(AchKeys) THEN [db |-> d, ok |-> TRUE]
  ELSE IF fail = AchQuery(AchKeys[i]) THEN [db |-> d, ok |-> FALSE]
  ELSE IF AchCond(d, AchKeys[i], exercise_level, streak, total_level, today_date)
       THEN IF fail = AchKeys[i] THEN [db |-> d, ok |-> FALSE]
            ELSE AchFrom(Unlock(d, AchKeys[i], now), i + 1, exercise_level,
                         streak, total_level, now, today_date, fail)
       ELSE AchFrom(d, i + 1, exercise_level, streak, total_level, now,
                    today_date, fail)

\* now: the timestamp read at line 422; today_date: the date read at line 501
check_achievements(d, exercise_level, streak, total_level, now, today_date, fail) ==
  AchFrom(d, 1, exercise_level, streak, total_level, now, today_date, fail)

\* ------------------------------------------------------------------------
\* Clock reads inside one call
\* ------------------------------------------------------------------------

\* A handler reads the clock several times.  Midnight may pass between two
\* reads: read k returns the next day when k >= cross.  cross = n + 1 means
\* that no midnight passes during the n reads of the call.
ClockRead(k, cross) == IF k >= cross THEN clock + 1 ELSE clock

\* midnight: whether the runs of the specification let midnight pass
\* inside a call
CrossChoices(n, midnight) ==
  IF midnight /\ clock < MaxDay THEN 2..(n + 1) ELSE {n + 1}

\* ------------------------------------------------------------------------
\* log_exercise, the Tauri command (lib.rs 318-414)
\* ------------------------------------------------------------------------

\* the early return taken when the SELECT of the exercise row finds no row
\* (lib.rs 327-333, 1062-1066; cli.rs 137-143, 263-272): nothing was written
NotFoundMutant(d) ==
  [db |-> InsertLog(d, NULL, 0, 0, NULL), status |-> "NotFound", today |-> NULL]

NotFound(d) == [db |-> d, status |-> "NotFound", today |-> NULL]

\* t[1]: datetime('now','localtime') of the INSERT (342); t[2]: today (355);
\* t[3]: the clock read for yesterday (377); t[4]: now of check_achievements
\* (422); t[5]: today_date of the century rule (501)
log_exercise(d, exercise_id, reps, t, fail) ==
  IF exercise_id \notin DOMAIN d.exercises
  THEN NotFound(d)
  ELSE
    LET e == d.exercises[exercise_id]
        xp_earned == mul_i32(e.xp_per_rep, reps)
        new_xp == e.total_xp + xp_earned
        new_level == level_from_xp(new_xp)
        d1 == InsertLog(d, exercise_id, reps, xp_earned, t[1])
        d2 == UpdateExercise(d1, exercise_id, new_xp, new_level)
        today == t[2]
        streak == new_streak(d2.user_stats.last_exercise_date,
                             d2.user_stats.current_streak, today, t[3])
        new_longest == max(streak, d2.user_stats.longest_streak)
        d3 == UpdateStats(d2, streak, new_longest, today)
        r == check_achievements(d3, new_level, streak, TotalLevel(d3),
                                t[4], t[5], fail)
    IN CASE fail = "insert_log" ->
              [db |-> d, status |-> "PersistenceFailure", today |-> today]
         [] fail = "update_exercise" ->
              [db |-> d1, status |-> "PersistenceFailure", today |-> today]
         [] fail = "update_stats" ->
              [db |-> d2, status |-> "PersistenceFailure", today |-> today]
         [] OTHER ->
              [db |-> r.db,
               status |-> IF r.ok THEN "Ok" ELSE "PersistenceFailure",
               today |-> today]

\* the statements at which a failure is injected: the three writes, the two
\* queries, and the first and the last UPDATE of check_achievements
GuiFails ==
  {"none", "insert_log", "update_exercise", "update_stats",
   "query_log_count", "query_distinct", "first_exercise", "hundred_pushups"}

\* ------------------------------------------------------------------------
\* the tray quick-log handler (lib.rs 1044-1150)
\* ------------------------------------------------------------------------

\* Every write is `let _ = conn.execute(..)`: a failed statement is skipped
\* and the handler goes on.  fails is the set of statements that fail.
\* The handler returns nothing: when the SELECT of the exercise row finds no
\* row the body of `if let Ok(..)` is skipped (1062-1066); status names the
\* path taken.
quick_log(d, exercise_id, reps, t, fails) ==
  IF exercise_id \notin DOMAIN d.exercises
  THEN NotFound(d)
  ELSE
    LET e == d.exercises[exercise_id]
        xp_earned == mul_i32(e.xp_per_rep, reps)
        new_xp == e.total_xp + xp_earned
        new_level == level_from_xp(new_xp)
        d1 == IF "insert_log" \in fails THEN d
              ELSE InsertLog(d, exercise_id, reps, xp_earned, t[1])
        d2 == IF "update_exercise" \in fails THEN d1
              ELSE UpdateExercise(d1, exercise_id, new_xp, new_level)
        today == t[2]
        streak == new_streak(d2.user_stats.last_exercise_date,
                             d2.user_stats.current_streak, today, t[3])
        new_longest == max(streak, d2.user_stats.longest_streak)
        d3 == IF "update_stats" \in fails THEN d2
              ELSE UpdateStats(d2, streak, new_longest, today)
    IN [db |-> d3,
        status |-> IF fails = {} THEN "Ok" ELSE "PersistenceFailure",
        today |-> today]

TrayFails == {"insert_log", "update_exercise", "update_stats"}

\* menu items "log_{exercise_id}_{reps}" (lib.rs 953-993)
TrayMenu ==
  { <<1, 5>>, <<1, 10>>, <<1, 20>>, <<8, 5>>, <<8, 10>>, <<8, 20>>,
    <<3, 5>>, <<3, 10>>, <<3, 20>>, <<14, 10>>, <<14, 20>>, <<14, 50>>,
    <<19, 5>>, <<19, 10>>, <<21, 5>>, <<21, 10>>, <<20, 5>>, <<20, 10>> }

\* the items tried: those of 20 reps whose exercise is in the seeded prefix
TrayItems == {m \in TrayMenu : m[1] <= NumSeed /\ m[2] = 20}

\* ------------------------------------------------------------------------
\* the CLI: find_exercise (cli.rs 103-129) and log_exercise (cli.rs 131-208)
\* ------------------------------------------------------------------------

UpperCase == << "A", "B", "C", "D", "E", "F", "G", "H", "I", "J", "K", "L", "M",
                "N", "O", "P", "Q", "R", "S", "T", "U", "V", "W", "X", "Y", "Z" >>
LowerCase == << "a", "b", "c", "d", "e", "f", "g", "h", "i", "j", "k", "l", "m",
                "n", "o", "p", "q", "r", "s", "t", "u", "v", "w", "x", "y", "z" >>

LowerChar(c) ==
  IF \E i \in 1..26 : UpperCase[i] = c
  THEN LowerCase[CHOOSE i \in 1..26 : UpperCase[i] = c]
  ELSE c

\* str::to_lowercase and SQL LOWER on ASCII text
Lower(str) == [i \in 1..Len(str) |-> LowerChar(str[i])]

\* SQL LIKE: % matches any run of characters, _ any one character, letters
\* match without regard to case
RECURSIVE Like(_, _)
Like(text, pattern) ==
  IF pattern = << >> THEN text = << >>
  ELSE IF Head(pattern) = "%"
       THEN Like(text, Tail(pattern)) \/ (text # << >> /\ Like(Tail(text), pattern))
       ELSE /\ text # << >>
            /\ (Head(pattern) = "_" \/ LowerChar(Head(pattern)) = LowerChar(Head(text)))
            /\ Like(Tail(text), Tail(pattern))

MinOf(S) == CHOOSE x \in S : \A y \in S : x <= y

\* the id of the row found, or NULL; a query without ORDER BY returns the
\* rows in rowid order
find_exercise(d, search) ==
  LET search_lower == Lower(search)
      exact == {i \in DOMAIN d.exercises : Lower(d.exercises[i].name) = search_lower}
      pattern == << "%" >> \o search_lower \o << "%" >>
      partial == {i \in DOMAIN d.exercises :
                    Like(Lower(d.exercises[i].name), pattern)}
  IN IF exact # {} THEN MinOf(exact)
     ELSE IF partial # {} THEN MinOf(partial)
     ELSE NULL

\* log_exercise of the CLI: t[1] INSERT (152), t[2] today (165), t[3] the
\* clock read for yesterday (187)
cli_log_exercise(d, exercise_id, reps, t, fail) ==
  IF exercise_id \notin DOMAIN d.exercises
  THEN NotFound(d)
  ELSE
    LET e == d.exercises[exercise_id]
        xp_earned == mul_i32(e.xp_per_rep, reps)
        new_xp == e.total_xp + xp_earned
        new_level == level_from_xp(new_xp)
        d1 == InsertLog(d, exercise_id, reps, xp_earned, t[1])
        d2 == UpdateExercise(d1, exercise_id, new_xp, new_level)
        today == t[2]
        streak == new_streak(d2.user_stats.last_exercise_date,
                             d2.user_stats.current_streak, today, t[3])
        new_longest == max(streak, d2.user_stats.longest_streak)
        d3 == UpdateStats(d2, streak, new_longest, today)
    IN CASE fail = "insert_log" ->
              [db |-> d, status |-> "PersistenceFailure", today |-> today]
         [] fail = "update_exercise" ->
              [db |-> d1, status |-> "PersistenceFailure", today |-> today]
         [] fail = "update_stats" ->
              [db |-> d2, status |-> "PersistenceFailure", today |-> today]
         [] OTHER -> [db |-> d3, status |-> "Ok", today |-> today]

\* cmd_log (cli.rs 253-306)
cmd_log(d, exercise, reps, t, fail) ==
  LET exercise_id == find_exercise(d, exercise)
  IN IF exercise_id = NULL
     THEN NotFound(d)
     ELSE cli_log_exercise(d, exercise_id, reps, t, fail)

CliFails == {"none", "insert_log", "update_exercise", "update_stats"}

\* ------------------------------------------------------------------------
\* add_exercise (lib.rs 294-303), delete_exercise (lib.rs 305-316)
\* ------------------------------------------------------------------------

NameTaken(d, name) == \E i \in DOMAIN d.exercises : d.exercises[i].name = name

\* the INSERT fails on its own when the name is taken (name TEXT UNIQUE)
add_exercise(d, name, xp_per_rep, fail) ==
  IF fail = "insert_exercise" \/ NameTaken(d, name)
  THEN [db |-> d, status |-> "PersistenceFailure"]
  ELSE [db |-> InsertExercise(d, name, xp_per_rep), status |-> "Ok"]

\* DELETE FROM exercise_logs WHERE exercise_id = ?
DeleteLogsOf(d, id) ==
  [d EXCEPT !.exercise_logs = SelectSeq(@, LAMBDA l : l.exercise_id # id)]

\* DELETE FROM exercises WHERE id = ?
DeleteExerciseRow(d, id) ==
  [d EXCEPT !.exercises = [i \in DOMAIN @ \ {id} |-> @[i]]]

delete_exercise(d, id, fail) ==
  CASE fail = "delete_logs" -> [db |-> d, status |-> "PersistenceFailure"]
    [] fail = "delete_exercise" ->
         [db |-> DeleteLogsOf(d, id), status |-> "PersistenceFailure"]
    [] OTHER -> [db |-> DeleteExerciseRow(DeleteLogsOf(d, id), id), status |-> "Ok"]

\* ------------------------------------------------------------------------
\* reset_all_data (lib.rs 875-934) and import_data (lib.rs 778-873)
\* ------------------------------------------------------------------------

\* The batch "DELETE FROM exercise_logs; DELETE FROM exercises; UPDATE
\* user_stats ..; UPDATE achievements .." runs outside a transaction: the
\* statements before the one that fails stay committed.  n is the number of
\* statements of the batch that are executed.
ClearBatch(d, n) ==
  LET d1 == IF n >= 1 THEN [d EXCEPT !.exercise_logs = << >>] ELSE d
      d2 == IF n >= 2 THEN [d1 EXCEPT !.exercises = << >>] ELSE d1
      d3 == IF n >= 3
            THEN [d2 EXCEPT !.user_stats = [current_streak |-> 0,
                                            longest_streak |-> 0,
                                            last_exercise_date |-> NULL]]
            ELSE d2
      d4 == IF n >= 4
            THEN [d3 EXCEPT !.achievements = [k \in AchKeySet |-> NULL]]
            ELSE d3
  IN d4

\* fail = 0: no statement fails; 1..4: that statement of the batch fails;
\* 4 + k: the INSERT of the k-th default exercise fails
RECURSIVE ReseedFrom(_, _, _)
ReseedFrom(d, k, fail) ==
  IF k > Len(SeedCatalog) THEN [db |-> d, status |-> "Ok"]
  ELSE IF fail = 4 + k \/ NameTaken(d, SeedCatalog[k].name)
       THEN [db |-> d, status |-> "PersistenceFailure"]
       ELSE ReseedFrom(InsertExercise(d, SeedCatalog[k].name,
                                      SeedCatalog[k].xp_per_rep), k + 1, fail)

reset_all_data(d, fail) ==
  IF fail \in 1..4
  THEN [db |-> ClearBatch(d, fail - 1), status |-> "PersistenceFailure"]
  ELSE ReseedFrom(ClearBatch(d, 4), 1, fail)

ResetFails == 0..(4 + NumSeed)

\* INSERT INTO exercises (id, name, ..) with the id of the payload
InsertExerciseRow(d, row) ==
  [d EXCEPT !.exercises =
              [i \in DOMAIN d.exercises \cup {row.id} |->
                 IF i = row.id
                 THEN [name |-> row.name, xp_per_rep |-> row.xp_per_rep,
                       total_xp |-> row.total_xp,
                       current_level |-> row.current_level]
                 ELSE d.exercises[i]],
            !.exercise_seq = max(d.exercise_seq, row.id)]

\* the INSERT fails on its own on a duplicate id or name
RECURSIVE ImportExercises(_, _, _)
ImportExercises(d, rows, k) ==
  IF k > Len(rows) THEN [db |-> d, ok |-> TRUE]
  ELSE IF rows[k].id \in DOMAIN d.exercises \/ NameTaken(d, rows[k].name)
       THEN [db |-> d, ok |-> FALSE]
       ELSE ImportExercises(InsertExerciseRow(d, rows[k]), rows, k + 1)

\* UPDATE achievements SET unlocked_at = ? WHERE key = ?, for the entries
\* of the payload whose unlocked_at is set
ImportAchievements(d, ach) ==
  [d EXCEPT !.achievements =
     [k \in AchKeySet |->
        IF k \in DOMAIN ach /\ ach[k] # NULL THEN ach[k] ELSE @[k]]]

\* INSERT INTO exercise_logs (id, exercise_id, ..) for the rows of the
\* payload.  exercise_logs declares FOREIGN KEY (exercise_id) REFERENCES
\* exercises(id) (lib.rs 115); SQLite enforces it only when the library was
\* built or configured with foreign keys on, which the sources do not fix:
\* foreign_keys is that choice.  With enforcement the INSERT of a row whose
\* exercise is missing fails, and the rows before it stay.
RECURSIVE ImportLogs(_, _, _, _)
ImportLogs(d, rows, k, foreign_keys) ==
  IF k > Len(rows) THEN [db |-> d, ok |-> TRUE]
  ELSE IF foreign_keys /\ rows[k].exercise_id \notin DOMAIN d.exercises
       THEN [db |-> d, ok |-> FALSE]
       ELSE ImportLogs([d EXCEPT !.exercise_logs = Append(@, rows[k])],
                       rows, k + 1, foreign_keys)

\* fail names the stage whose first statement fails
import_data(d, data, fail, foreign_keys) ==
  LET d1 == ClearBatch(d, 4)
      r2 == ImportExercises(d1, data.exercises, 1)
      r3 == ImportLogs(r2.db, data.exercise_logs, 1, foreign_keys)
      d3 == r3.db
      d4 == [d3 EXCEPT !.user_stats = data.user_stats]
      d5 == ImportAchievements(d4, data.achievements)
  IN CASE fail = "clear" -> [db |-> d, status |-> "PersistenceFailure"]
       [] fail = "insert_exercises" -> [db |-> d1, status |-> "PersistenceFailure"]
       [] ~r2.ok -> [db |-> r2.db, status |-> "PersistenceFailure"]
       [] fail = "insert_logs" -> [db |-> r2.db, status |-> "PersistenceFailure"]
       [] ~r3.ok -> [db |-> r3.db, status |-> "PersistenceFailure"]
       [] fail = "update_stats" -> [db |-> d3, status |-> "PersistenceFailure"]
       [] fail = "update_achievements" -> [db |-> d4, status |-> "PersistenceFailure"]
       [] OTHER -> [db |-> d5, status |-> "Ok"]

ImportFails ==
  {"none", "clear", "insert_exercises", "insert_logs", "update_stats",
   "update_achievements"}

\* Payloads offered to import_data.  The first is what export_data writes
\* after one log of 20 pushups on day 1; the second is a hand-edited file.
SnapshotA ==
  [exercises |-> << [id |-> 1, name |-> Pushups, xp_per_rep |-> 10,
                     total_xp |-> 200, current_level |-> 3] >>,
   exercise_logs |-> << [exercise_id |-> 1, reps |-> 20, xp_earned |-> 200,
                         logged_at |-> 1] >>,
   user_stats |-> [current_streak |-> 1, longest_streak |-> 1,
                   last_exercise_date |-> 1],
   achievements |-> [k \in AchKeySet |-> IF k = "first_exercise" THEN 1 ELSE NULL]]

SnapshotB ==
  [exercises |-> << [id |-> 1, name |-> Pushups, xp_per_rep |-> 10,
                     total_xp |-> 0, current_level |-> 5] >>,
   exercise_logs |-> << >>,
   user_stats |-> [current_streak |-> 2, longest_streak |-> 1,
                   last_exercise_date |-> 1],
   achievements |-> [k \in AchKeySet |-> NULL]]

ImportPayloads == {SnapshotA, SnapshotB}

\* a hand-edited file whose log row refers to an exercise that is not in it
SnapshotC ==
  [exercises |-> << [id |-> 1, name |-> Pushups, xp_per_rep |-> 10,
                     total_xp |-> 200, current_level |-> 3] >>,
   exercise_logs |-> << [exercise_id |-> 2, reps |-> 20, xp_earned |-> 200,
                         logged_at |-> 1] >>,
   user_stats |-> [current_streak |-> 1, longest_streak |-> 1,
                   last_exercise_date |-> 1],
   achievements |-> [k \in AchKeySet |-> NULL]]

\* ------------------------------------------------------------------------
\* Badge engine: models.rs
\* ------------------------------------------------------------------------

\* ExerciseType::all (models.rs 22-30)
ExerciseTypes == {"PushUps", "Squats", "Planks", "JumpingJacks", "Stretches"}

\* ExerciseType::default_reps (models.rs 44-52)
default_reps(t) ==
  CASE t = "PushUps" -> 10 [] t = "Squats" -> 15 [] t = "Planks" -> 1
    [] t = "JumpingJacks" -> 20 [] t = "Stretches" -> 5

\* ExerciseType::points_per_set (models.rs 55-63)
points_per_set(t) ==
  CASE t = "PushUps" -> 10 [] t = "Squats" -> 10 [] t = "Planks" -> 15
    [] t = "JumpingJacks" -> 8 [] t = "Stretches" -> 5

\* Level::from_points (models.rs 111-120)
from_points(points) ==
  IF points <= 100 THEN "NewbieCoder"
  ELSE IF points <= 500 THEN "JuniorDev"
  ELSE IF points <= 1500 THEN "MidLevelEngineer"
  ELSE IF points <= 5000 THEN "SeniorDev"
  ELSE IF points <= 15000 THEN "TechLead"
  ELSE "CTO"

\* UserProgress::default (models.rs 304-319); the HashMaps are functions
\* whose domain is the set of keys present
DefaultProgress ==
  [total_points |-> 0, current_level |-> "NewbieCoder", current_streak |-> 0,
   longest_streak |-> 0, total_exercises |-> 0, badges |-> << >>,
   daily_history |-> << >>, lifetime_counts |-> << >>,
   last_exercise_date |-> NULL, exercise_types_completed |-> << >>]

Contains(seq, x) == \E i \in 1..Len(seq) : seq[i] = x

\* HashMap::get(..).unwrap_or(&0)
GetOr0(map, key) == IF key \in DOMAIN map THEN map[key] ELSE 0

\* *map.entry(key).or_insert(0) += n
AddTo(map, key, n) ==
  [k \in DOMAIN map \cup {key} |-> IF k = key THEN GetOr0(map, key) + n ELSE map[k]]

\* DailyStats::new and DailyStats::add_exercise (models.rs 262-276)
NewDailyStats(date) ==
  [date |-> date, exercises |-> << >>, total_points |-> 0,
   exercise_counts |-> << >>]

DailyAddReps(daily, entry) ==
  [daily EXCEPT !.total_points = @ + entry.reps,
                !.exercise_counts = AddTo(@, entry.exercise_type, entry.reps),
                !.exercises = Append(@, entry)]

DailyAddExercise(daily, entry) ==
  [daily EXCEPT !.total_points = @ + entry.points_earned,
                !.exercise_counts = AddTo(@, entry.exercise_type, entry.reps),
                !.exercises = Append(@, entry)]

\* Local::now().weekday().num_days_from_monday() >= 5; day 1 is a Friday
IsWeekend(date) == (date + 3) % 7 >= 5

\* streak update of record_exercise (models.rs 343-356)
egui_streak(last_date, current_streak, today) ==
  IF last_date # NULL
  THEN IF today - last_date = 1 THEN current_streak + 1
       ELSE IF today - last_date > 1 THEN 1
       ELSE current_streak
  ELSE 1

\* the badge rules of record_exercise, in the order of the code
\* (models.rs 366-420); p is the progress after the counters were updated
BadgeOrder ==
  << "FirstCommit", "WeekendWarrior", "MarathonCoder", "CenturyClub",
     "EarlyBird", "NightOwl", "Diversified", "ConsistentShipper",
     "ThousandPushUps", "IronWill" >>

BadgeCond(p, badge, hour, is_weekend) ==
  CASE badge = "FirstCommit" -> p.total_exercises = 1
    [] badge = "WeekendWarrior" -> is_weekend
    [] badge = "MarathonCoder" -> p.current_streak >= 7
    [] badge = "CenturyClub" -> p.total_exercises >= 100
    [] badge = "EarlyBird" -> hour < 9
    [] badge = "NightOwl" -> hour >= 21
    [] badge = "Diversified" ->
         Len(p.exercise_types_completed) >= Cardinality(ExerciseTypes)
    [] badge = "ConsistentShipper" -> p.current_streak >= 30
    [] badge = "ThousandPushUps" -> GetOr0(p.lifetime_counts, "PushUps") >= 1000
    [] badge = "IronWill" -> GetOr0(p.lifetime_counts, "Planks") >= 100

NewBadges(p, hour, is_weekend) ==
  SelectSeq(BadgeOrder,
            LAMBDA b : BadgeCond(p, b, hour, is_weekend) /\ ~Contains(p.badges, b))

\* for badge in &new_badges { if !self.badges.contains(badge) { push } }
RECURSIVE PushBadges(_, _, _)
PushBadges(badges, new_badges, k) ==
  IF k > Len(new_badges) THEN badges
  ELSE PushBadges(IF Contains(badges, new_badges[k]) THEN badges
                  ELSE Append(badges, new_badges[k]),
                  new_badges, k + 1)

\* UserProgress::record_exercise (models.rs 323-435).  t[1]: completed_at of
\* the entry (92); t[2]: today (325); t[3]: the date of the read of hour
\* (326); t[4]: the date of the read of the weekday (327)
record_exercise(p, exercise_type, reps, t, hour) ==
  LET entry == [exercise_type |-> exercise_type, reps |-> reps,
                completed_at |-> t[1],
                points_earned |-> points_per_set(exercise_type)]
      today == t[2]
      daily == IF today \in DOMAIN p.daily_history THEN p.daily_history[today]
               ELSE NewDailyStats(today)
      history == [dt \in DOMAIN p.daily_history \cup {today} |->
                    IF dt = today THEN DailyAddExercise(daily, entry)
                    ELSE p.daily_history[dt]]
      streak == egui_streak(p.last_exercise_date, p.current_streak, today)
      p1 == [p EXCEPT
               !.daily_history = history,
               !.total_points = @ + entry.points_earned,
               !.total_exercises = @ + 1,
               !.lifetime_counts = AddTo(@, exercise_type, reps),
               !.exercise_types_completed =
                  IF Contains(@, exercise_type) THEN @ ELSE Append(@, exercise_type),
               !.current_streak = streak,
               !.last_exercise_date = today,
               !.longest_streak = max(@, streak),
               !.current_level = from_points(p.total_points + entry.points_earned)]
      new_badges == NewBadges(p1, hour, IsWeekend(t[4]))
  IN [progress |-> [p1 EXCEPT !.badges = PushBadges(@, new_badges, 1)],
      new_badges |-> new_badges]

\* a progress file offered to Storage::import_from: a backup taken after one
\* set of push-ups on day 1
ProgressBackup ==
  LET r == record_exercise(DefaultProgress, "PushUps", 10, << 1, 1, 1, 1 >>, 12)
  IN r.progress

\* ------------------------------------------------------------------------
\* Inputs
\* ------------------------------------------------------------------------

\* reps is an i32 in the command and in the CLI; nothing restricts its sign
RepsChoices == {0, 20}

\* search strings given to the CLI
Searches == { << "p", "u", "s", "h", "u", "p", "s" >>, << "S" >>, << "z" >> }

\* names given to add_exercise
Push == << "P", "u", "s", "h" >>
AddNames == {Push}

HourChoices == {12, 21}

\* ------------------------------------------------------------------------
\* Initial state
\* ------------------------------------------------------------------------

Call(op, who, status, reps) ==
  [op |-> op, who |-> who, status |-> status, reps |-> reps,
   new_badges |-> << >>]

\* the GUI command and the tray handler run in the application's process, the
\* CLI in a process of its own
Procs == {"gui", "tray", "cli"}

Init ==
  /\ app \in {"tauri", "egui"}
  /\ clock = 1
  /\ exercises = init_database.exercises
  /\ exercise_seq = init_database.exercise_seq
  /\ exercise_logs = init_database.exercise_logs
  /\ user_stats = init_database.user_stats
  /\ achievements = init_database.achievements
  /\ last = Call("init", "none", "Ok", 0)
  /\ pc = [p \in Procs |-> "idle"]
  /\ loc = [p \in Procs |-> << >>]
  /\ progress = DefaultProgress
  /\ file = [exists |-> FALSE, contents |-> DefaultProgress]

\* ------------------------------------------------------------------------
\* The clock
\* ------------------------------------------------------------------------

Tick ==
  /\ clock < MaxDay
  /\ clock' = clock + 1
  /\ UNCHANGED <<app, tauriVars, last, concVars, eguiVars>>

\* ------------------------------------------------------------------------
\* Calls of the SQLite engine, one at a time
\* ------------------------------------------------------------------------

Reads(n, cross) == [k \in 1..n |-> ClockRead(k, cross)]

\* Each call takes the failures the runs inject (faults) and whether midnight
\* may pass inside it.
GuiLogExercise(faults, midnight) ==
  /\ app = "tauri"
  /\ Len(exercise_logs) < MaxLogs
  /\ \E exercise_id \in DOMAIN exercises \cup {exercise_seq + 1},
        reps \in RepsChoices, cross \in CrossChoices(5, midnight),
        fail \in GuiFails \cap faults :
       LET r == log_exercise(DB, exercise_id, reps, Reads(5, cross), fail)
       IN /\ SetDB(r.db)
          /\ last' = Call("log", "gui", r.status, reps)
          /\ clock' = IF r.status = "NotFound" THEN clock ELSE ClockRead(5, cross)
  /\ UNCHANGED <<app, concVars, eguiVars>>

TrayQuickLog(faults, midnight) ==
  /\ app = "tauri"
  /\ Len(exercise_logs) < MaxLogs
  /\ \E item \in TrayItems, cross \in CrossChoices(3, midnight),
        fails \in SUBSET (TrayFails \cap faults) :
       LET r == quick_log(DB, item[1], item[2], Reads(3, cross), fails)
       IN /\ SetDB(r.db)
          /\ last' = Call("log", "tray", r.status, item[2])
          /\ clock' = IF r.status = "NotFound" THEN clock ELSE ClockRead(3, cross)
  /\ UNCHANGED <<app, concVars, eguiVars>>

CliLog(faults, midnight) ==
  /\ app = "tauri"
  /\ Len(exercise_logs) < MaxLogs
  /\ \E search \in Searches, reps \in RepsChoices,
        cross \in CrossChoices(3, midnight), fail \in CliFails \cap faults :
       LET r == cmd_log(DB, search, reps, Reads(3, cross), fail)
       IN /\ SetDB(r.db)
          /\ last' = Call("log", "cli", r.status, reps)
          /\ clock' = IF r.status = "NotFound" THEN clock ELSE ClockRead(3, cross)
  /\ UNCHANGED <<app, concVars, eguiVars>>

AddExercise(faults) ==
  /\ app = "tauri"
  /\ exercise_seq < MaxId
  /\ \E name \in AddNames, fail \in {"none", "insert_exercise"} \cap faults :
       LET r == add_exercise(DB, name, 5, fail)
       IN /\ SetDB(r.db)
          /\ last' = Call("add", "gui", r.status, 0)
  /\ UNCHANGED <<app, clock, concVars, eguiVars>>

DeleteExercise(faults) ==
  /\ app = "tauri"
  /\ \E id \in DOMAIN exercises,
        fail \in {"none", "delete_logs", "delete_exercise"} \cap faults :
       LET r == delete_exercise(DB, id, fail)
       IN /\ SetDB(r.db)
          /\ last' = Call("delete", "gui", r.status, 0)
  /\ UNCHANGED <<app, clock, concVars, eguiVars>>

ResetAllData(faults) ==
  /\ app = "tauri"
  /\ exercise_seq + NumSeed <= MaxId
  /\ \E fail \in IF "reset" \in faults THEN ResetFails ELSE {0} :
       LET r == reset_all_data(DB, fail)
       IN /\ SetDB(r.db)
          /\ last' = Call("reset", "gui", r.status, 0)
  /\ UNCHANGED <<app, clock, concVars, eguiVars>>

ImportData(faults) ==
  /\ app = "tauri"
  /\ \E data \in ImportPayloads, fail \in ImportFails \cap faults :
       \* every log row of ImportPayloads refers to an exercise of its
       \* payload: foreign-key enforcement makes no difference here
       LET r == import_data(DB, data, fail, FALSE)
       IN /\ SetDB(r.db)
          /\ last' = Call("import", "gui", r.status, 0)
  /\ UNCHANGED <<app, clock, concVars, eguiVars>>

\* ------------------------------------------------------------------------
\* Calls of the badge engine: storage.rs
\* ------------------------------------------------------------------------

\* Storage::save (storage.rs 72-102): the file is replaced by the serialized
\* progress unless a file-system call fails
save(p, f, fails) ==
  IF fails THEN [file |-> f, ok |-> FALSE]
  ELSE [file |-> [exists |-> TRUE, contents |-> p], ok |-> TRUE]

\* Storage::update with auto_save and Storage::record_exercise
\* (storage.rs 117-143): the closure runs on the in-memory progress, then
\* save() is called
storage_record_exercise(p, f, exercise_type, reps, t, hour, save_fails) ==
  LET r == record_exercise(p, exercise_type, reps, t, hour)
      s == save(r.progress, f, save_fails)
  IN [progress |-> r.progress, file |-> s.file, new_badges |-> r.new_badges,
      status |-> IF s.ok THEN "Ok" ELSE "PersistenceFailure"]

\* Storage::reset (storage.rs 194-213)
storage_reset(p, f, fail) ==
  LET s1 == save(p, f, fail = "save_before")
      s2 == save(DefaultProgress, s1.file, fail = "save_after")
  IN IF ~s1.ok \/ fail = "backup"
     THEN [progress |-> p, file |-> s1.file, status |-> "PersistenceFailure"]
     ELSE [progress |-> DefaultProgress, file |-> s2.file,
           status |-> IF s2.ok THEN "Ok" ELSE "PersistenceFailure"]

\* Storage::import_from (storage.rs 175-191)
import_from(p, f, imported, fail) ==
  LET s == save(imported, f, fail = "save")
  IN IF fail = "read"
     THEN [progress |-> p, file |-> f, status |-> "PersistenceFailure"]
     ELSE [progress |-> imported, file |-> s.file,
           status |-> IF s.ok THEN "Ok" ELSE "PersistenceFailure"]

\* Config::get_reps (config.rs 179-185): the configured reps of the type, or
\* its default
EguiReps(t) == {default_reps(t)}

\* the exercise types logged in the model
EguiTypes == {"PushUps", "Planks"}

RecordExercise(faults, midnight) ==
  /\ app = "egui"
  /\ progress.total_exercises < MaxLogs
  /\ \E exercise_type \in EguiTypes, hour \in HourChoices,
        cross \in CrossChoices(4, midnight),
        save_fails \in IF "save" \in faults THEN BOOLEAN ELSE {FALSE} :
       \E reps \in EguiReps(exercise_type) :
         LET t == Reads(4, cross)
             r == storage_record_exercise(progress, file, exercise_type, reps, t,
                                          IF t[3] > clock THEN 0 ELSE hour,
                                          save_fails)
         IN /\ progress' = r.progress
            /\ file' = r.file
            /\ last' = [Call("log", "egui", r.status, reps)
                          EXCEPT !.new_badges = r.new_badges]
            /\ clock' = t[4]
  /\ UNCHANGED <<app, tauriVars, concVars>>

StorageReset(faults) ==
  /\ app = "egui"
  /\ \E fail \in {"none", "save_before", "backup", "save_after"} \cap faults :
       LET r == storage_reset(progress, file, fail)
       IN /\ progress' = r.progress
          /\ file' = r.file
          /\ last' = Call("reset", "egui", r.status, 0)
  /\ UNCHANGED <<app, clock, tauriVars, concVars>>

ImportFrom(faults) ==
  /\ app = "egui"
  /\ \E fail \in {"none", "read", "save"} \cap faults :
       LET r == import_from(progress, file, ProgressBackup, fail)
       IN /\ progress' = r.progress
          /\ file' = r.file
          /\ last' = Call("import", "egui", r.status, 0)
  /\ UNCHANGED <<app, clock, tauriVars, concVars>>

\* ------------------------------------------------------------------------
\* Specification: calls run one at a time
\* ------------------------------------------------------------------------

\* The failures injected in the runs: none, the UPDATE of the exercise row
\* failing in a log call (lib.rs 348-352, 1079-1082; cli.rs 158-162), and
\* Storage::save failing (storage.rs 72-102).
Faults == {"none", "update_exercise", "save"}

Next ==
  \/ Tick
  \/ GuiLogExercise(Faults, FALSE)
  \/ TrayQuickLog(Faults, FALSE)
  \/ CliLog(Faults, FALSE)
  \/ AddExercise(Faults)
  \/ DeleteExercise(Faults)
  \/ ResetAllData(Faults)
  \/ ImportData(Faults)
  \/ RecordExercise(Faults, FALSE)
  \/ StorageReset(Faults)
  \/ ImportFrom(Faults)

Spec == Init /\ [][Next]_vars

\* ------------------------------------------------------------------------
\* Specification: one log call of each front end, statement by statement
\* ------------------------------------------------------------------------

\* No statement is inside a transaction: each conn.execute commits by itself.
\* The command and the tray handler hold the Mutex<Connection> of DbState for
\* the whole handler (lib.rs 324, 1051); the CLI opens a connection of its
\* own (cli.rs 254) and takes no lock shared with them.
InProcess == {"gui", "tray"}

ConcReps == 20

InitConc ==
  /\ app = "conc"
  /\ clock = 1
  /\ exercises = init_database.exercises
  /\ exercise_seq = init_database.exercise_seq
  /\ exercise_logs = init_database.exercise_logs
  /\ user_stats = init_database.user_stats
  /\ achievements = init_database.achievements
  /\ last = Call("init", "none", "Ok", 0)
  /\ pc = [p \in Procs |-> "idle"]
  /\ loc = [p \in Procs |-> << >>]
  /\ progress = DefaultProgress
  /\ file = [exists |-> FALSE, contents |-> DefaultProgress]

ConcFrame == UNCHANGED <<app, clock, last, eguiVars>>

\* the lock and the SELECT of the exercise row (lib.rs 324-333, 1051-1066;
\* cli.rs 263, 137-143)
ConcSelect(p) ==
  /\ pc[p] = "idle"
  /\ p \in InProcess => \A q \in InProcess : pc[q] \in {"idle", "done"}
  /\ LET exercise_id == IF p = "cli" THEN find_exercise(DB, Lower(Pushups)) ELSE 1
     IN IF exercise_id \notin DOMAIN exercises
        THEN /\ pc' = [pc EXCEPT ![p] = "done"]
             /\ loc' = loc
        ELSE LET e == exercises[exercise_id]
                 xp_earned == mul_i32(e.xp_per_rep, ConcReps)
                 new_xp == e.total_xp + xp_earned
             IN /\ pc' = [pc EXCEPT ![p] = "insert"]
                /\ loc' = [loc EXCEPT ![p] =
                             [exercise_id |-> exercise_id, xp_earned |-> xp_earned,
                              new_xp |-> new_xp,
                              new_level |-> level_from_xp(new_xp)]]
  /\ UNCHANGED tauriVars
  /\ ConcFrame

\* INSERT INTO exercise_logs (lib.rs 341-345, 1073-1076; cli.rs 151-155)
ConcInsert(p) ==
  /\ pc[p] = "insert"
  /\ SetDB(InsertLog(DB, loc[p].exercise_id, ConcReps, loc[p].xp_earned, clock))
  /\ pc' = [pc EXCEPT ![p] = "update"]
  /\ UNCHANGED loc
  /\ ConcFrame

\* UPDATE exercises SET total_xp = ?, current_level = ? (lib.rs 348-352,
\* 1079-1082; cli.rs 158-162): the values computed from the row read before
ConcUpdateExercise(p) ==
  /\ pc[p] = "update"
  /\ SetDB(UpdateExercise(DB, loc[p].exercise_id, loc[p].new_xp, loc[p].new_level))
  /\ pc' = [pc EXCEPT ![p] = "read_stats"]
  /\ UNCHANGED loc
  /\ ConcFrame

\* the two SELECTs of user_stats and the streak computed from them
\* (lib.rs 355-390, 1085-1119; cli.rs 165-200)
ConcReadStats(p) ==
  /\ pc[p] = "read_stats"
  /\ LET streak == new_streak(user_stats.last_exercise_date,
                              user_stats.current_streak, clock, clock)
     IN loc' = [loc EXCEPT ![p] =
                  [exercise_id |-> loc[p].exercise_id,
                   xp_earned |-> loc[p].xp_earned,
                   new_xp |-> loc[p].new_xp, new_level |-> loc[p].new_level,
                   new_streak |-> streak,
                   new_longest |-> max(streak, user_stats.longest_streak)]]
  /\ pc' = [pc EXCEPT ![p] = "update_stats"]
  /\ UNCHANGED tauriVars
  /\ ConcFrame

\* UPDATE user_stats (lib.rs 392-396, 1121-1124; cli.rs 202-206); the tray
\* handler and the CLI end here
ConcUpdateStats(p) ==
  /\ pc[p] = "update_stats"
  /\ SetDB(UpdateStats(DB, loc[p].new_streak, loc[p].new_longest, clock))
  /\ pc' = [pc EXCEPT ![p] = IF p = "gui" THEN "achievements" ELSE "done"]
  /\ UNCHANGED loc
  /\ ConcFrame

\* the command goes on with check_achievements (lib.rs 399-408)
ConcAchievements ==
  /\ pc["gui"] = "achievements"
  /\ SetDB(check_achievements(DB, loc["gui"].new_level, loc["gui"].new_streak,
                              TotalLevel(DB), clock, clock, "none").db)
  /\ pc' = [pc EXCEPT !["gui"] = "done"]
  /\ UNCHANGED loc
  /\ ConcFrame

NextConc ==
  \/ \E p \in Procs : ConcSelect(p)
  \/ \E p \in Procs : ConcInsert(p)
  \/ \E p \in Procs : ConcUpdateExercise(p)
  \/ \E p \in Procs : ConcReadStats(p)
  \/ \E p \in Procs : ConcUpdateStats(p)
  \/ ConcAchievements

SpecConc == InitConc /\ [][NextConc]_vars

\* ------------------------------------------------------------------------
\* Specification: the calendar, with gaps and a clock that is set back
\* ------------------------------------------------------------------------

\* days of the calendar of this specification
MaxClockDay == 4
\* logs made in one run of this specification
MaxClockLogs == 3

\* the number of clock reads of a log call: five in the command with
\* check_achievements, three in the tray handler and in the CLI
ReadsOf(who) == IF who = "gui" THEN 5 ELSE 3

\* choices of the read at which midnight passes, while the day after is
\* within maxDay
CrossWithin(n, maxDay) == IF clock < maxDay THEN 2..(n + 1) ELSE {n + 1}

\* a log of exercise 1 (Pushups) through front end who
LogVia(who, reps, t) ==
  CASE who = "gui" -> log_exercise(DB, 1, reps, t, "none")
    [] who = "tray" -> quick_log(DB, 1, reps, t, {})
    [] who = "cli" -> cmd_log(DB, Lower(Pushups), reps, t, "none")

\* a log call of the SQLite engine through any front end
TauriLog(repsSet, maxLogs, maxDay) ==
  /\ app = "tauri"
  /\ Len(exercise_logs) < maxLogs
  /\ \E who \in Procs, reps \in repsSet :
       \E cross \in CrossWithin(ReadsOf(who), maxDay) :
         LET r == LogVia(who, reps, Reads(ReadsOf(who), cross))
         IN /\ SetDB(r.db)
            /\ last' = Call("log", who, r.status, reps)
            /\ clock' = IF r.status = "NotFound" THEN clock
                        ELSE ClockRead(ReadsOf(who), cross)
  /\ UNCHANGED <<app, concVars, eguiVars>>

\* a log call of the badge engine (main.rs 73-119) with the default reps
EguiLog(types, hours, maxLogs, maxDay) ==
  /\ app = "egui"
  /\ progress.total_exercises < maxLogs
  /\ \E exercise_type \in types, hour \in hours, cross \in CrossWithin(4, maxDay) :
       LET t == Reads(4, cross)
           r == storage_record_exercise(progress, file, exercise_type,
                                        default_reps(exercise_type), t,
                                        IF t[3] > clock THEN 0 ELSE hour, FALSE)
       IN /\ progress' = r.progress
          /\ file' = r.file
          /\ last' = [Call("log", "egui", r.status, default_reps(exercise_type))
                        EXCEPT !.new_badges = r.new_badges]
          /\ clock' = t[4]
  /\ UNCHANGED <<app, tauriVars, concVars>>

\* a day passes
DayPasses(maxDay) ==
  /\ clock < maxDay
  /\ clock' = clock + 1
  /\ UNCHANGED <<app, tauriVars, last, concVars, eguiVars>>

\* the local date is set back by one day (the system clock is corrected, or
\* the machine moves to a time zone that is behind)
ClockBack ==
  /\ clock > 1
  /\ clock' = clock - 1
  /\ UNCHANGED <<app, tauriVars, last, concVars, eguiVars>>

NextClock ==
  \/ DayPasses(MaxClockDay)
  \/ ClockBack
  \/ TauriLog({ConcReps}, MaxClockLogs, MaxClockDay)
  \/ EguiLog({"PushUps"}, {12}, MaxClockLogs, MaxClockDay)

SpecClock == Init /\ [][NextClock]_vars

\* ------------------------------------------------------------------------
\* Specification: at most one log per day over more than a week
\* ------------------------------------------------------------------------

\* days of the calendar of this specification
MaxStreakDay == 8

\* no log was made today yet
NotLoggedToday ==
  /\ user_stats.last_exercise_date # clock
  /\ progress.last_exercise_date # clock

\* the last day on which midnight may pass inside a call is today: no call
\* of this specification crosses midnight
NextStreak ==
  \/ DayPasses(MaxStreakDay)
  \/ NotLoggedToday /\ TauriLog({ConcReps}, MaxStreakDay, clock)
  \/ NotLoggedToday /\ EguiLog({"PushUps"}, {12}, MaxStreakDay, clock)

SpecStreak == Init /\ [][NextStreak]_vars

\* ------------------------------------------------------------------------
\* Specification: the two level functions, called on their own
\* ------------------------------------------------------------------------

\* the XP values tried lie within XpWindow of a level threshold
XpWindow == 1

\* an XP total far above the threshold of the highest level
BigXp == 100 * xp_for_level(MaxLevel)

LevelChoices == 0 .. (MaxLevel + 1)

XpChoices ==
  {x \in UNION {(xp_for_level(l) - XpWindow) .. (xp_for_level(l) + XpWindow) :
                  l \in 1 .. (MaxLevel + 1)} : x >= 0}
    \cup {BigXp}

Returned(fn, arg, result) == [fn |-> fn, arg |-> arg, result |-> result]

InitXp ==
  /\ app = "xp"
  /\ clock = 1
  /\ exercises = init_database.exercises
  /\ exercise_seq = init_database.exercise_seq
  /\ exercise_logs = init_database.exercise_logs
  /\ user_stats = init_database.user_stats
  /\ achievements = init_database.achievements
  /\ last = Call("init", "none", "Ok", 0)
  /\ pc = [p \in Procs |-> "idle"]
  /\ loc = Returned("none", 0, 0)
  /\ progress = DefaultProgress
  /\ file = [exists |-> FALSE, contents |-> DefaultProgress]

CallXpForLevel ==
  /\ \E level \in LevelChoices :
       loc' = Returned("xp_for_level", level, xp_for_level(level))
  /\ UNCHANGED <<app, clock, tauriVars, last, pc, eguiVars>>

CallLevelFromXp ==
  /\ \E xp \in XpChoices :
       loc' = Returned("level_from_xp", xp, level_from_xp(xp))
  /\ UNCHANGED <<app, clock, tauriVars, last, pc, eguiVars>>

NextXp == CallXpForLevel \/ CallLevelFromXp

SpecXp == InitXp /\ [][NextXp]_vars

\* ------------------------------------------------------------------------
\* Specification: logs whose reps are large 32-bit values
\* ------------------------------------------------------------------------

MaxBigLogs == 3

\* 10 * 429496729 = 2^32 - 6 and 10 * 429496730 = 2^32 + 4
BigReps == {20, 429496729, 429496730}

\* overflow checks off (release profile) or on (dev profile)
Builds == {"release", "debug"}

\* a log of exercise 1 (Pushups) through front end who in the given build.
\* With overflow checks the multiplication panics before any statement is
\* executed; a panic under the lock of DbState (lib.rs 324, 1051) poisons
\* it, and every later lock() of the GUI and the tray fails.
BigLog ==
  /\ app = "tauri"
  /\ Len(exercise_logs) < MaxBigLogs
  /\ \E who \in Procs, reps \in BigReps, build \in Builds :
       IF who \in InProcess /\ pc[who] = "poisoned"
       THEN /\ last' = Call("log", who, "PersistenceFailure", reps)
            /\ UNCHANGED <<tauriVars, pc>>
       ELSE IF build = "debug" /\ mul_overflows(exercises[1].xp_per_rep, reps)
       THEN /\ last' = Call("log", who, "Panic", reps)
            /\ pc' = [p \in Procs |->
                        IF who \in InProcess /\ p \in InProcess
                        THEN "poisoned" ELSE pc[p]]
            /\ UNCHANGED tauriVars
       ELSE LET r == LogVia(who, reps, Reads(ReadsOf(who), ReadsOf(who) + 1))
            IN /\ SetDB(r.db)
               /\ last' = Call("log", who, r.status, reps)
               /\ UNCHANGED pc
  /\ UNCHANGED <<app, clock, loc, eguiVars>>

NextI32 == BigLog \/ DayPasses(MaxDay)

SpecI32 == Init /\ [][NextI32]_vars

\* ------------------------------------------------------------------------
\* Specification: logs around the thresholds of the achievements
\* ------------------------------------------------------------------------

MaxAchLogs == 3

\* 99 + 1 reps make a day total of 100; 116 reps of Pushups are 1160 XP
\* (level 10 starts at 1155) and 785 reps are 7850 XP (level 25 starts at 7845)
AchReps == {1, 99, 116, 785}

\* no call of this specification crosses midnight
NextAch ==
  \/ DayPasses(MaxDay)
  \/ TauriLog(AchReps, MaxAchLogs, clock)

SpecAch == Init /\ [][NextAch]_vars

\* ------------------------------------------------------------------------
\* get_stats (lib.rs 522-552)
\* ------------------------------------------------------------------------

get_stats(d) ==
  [total_xp |-> SumOver([i \in DOMAIN d.exercises |-> d.exercises[i].total_xp],
                        DOMAIN d.exercises),
   total_level |-> TotalLevel(d),
   current_streak |-> d.user_stats.current_streak,
   longest_streak |-> d.user_stats.longest_streak,
   last_exercise_date |-> d.user_stats.last_exercise_date,
   exercise_count |-> Cardinality(DOMAIN d.exercises)]

\* ------------------------------------------------------------------------
\* Specification: logs that take the total level to 100
\* ------------------------------------------------------------------------

MaxTotalLogs == 2

\* 1303444 reps of Pushups are 13034440 XP, the threshold of level 99;
\* 1303443 reps stay at level 98
TotalReps == {1303443, 1303444}

NextTotal ==
  \/ DayPasses(MaxDay)
  \/ AddExercise({"none"})
  \/ TauriLog(TotalReps, MaxTotalLogs, clock)

SpecTotal == Init /\ [][NextTotal]_vars

\* ------------------------------------------------------------------------
\* Specification: logs of several exercises, and deletions
\* ------------------------------------------------------------------------

\* the number of distinct exercises of the variety rule (lib.rs 492)
VarietyNeeded == 5

MaxVarietyLogs == 5

\* the first VarietyNeeded rows of the seeded catalog
VarietyCatalog == SubSeq(DefaultExercises, 1, VarietyNeeded)

RECURSIVE SeedRows(_, _, _)
SeedRows(d, rows, k) ==
  IF k > Len(rows) THEN d
  ELSE SeedRows(InsertExercise(d, rows[k].name, rows[k].xp_per_rep), rows, k + 1)

\* loc records the ids of the exercises logged since the database was created
InitVariety ==
  LET d == SeedRows(EmptyDB, VarietyCatalog, 1)
  IN /\ app = "tauri"
     /\ clock = 1
     /\ exercises = d.exercises
     /\ exercise_seq = d.exercise_seq
     /\ exercise_logs = d.exercise_logs
     /\ user_stats = d.user_stats
     /\ achievements = d.achievements
     /\ last = Call("init", "none", "Ok", 0)
     /\ pc = [p \in Procs |-> "idle"]
     /\ loc = {}
     /\ progress = DefaultProgress
     /\ file = [exists |-> FALSE, contents |-> DefaultProgress]

\* the front ends that offer exercise id: the tray only has its menu items
FrontEndsOf(id) ==
  {"gui", "cli"} \cup (IF \E m \in TrayMenu : m[1] = id THEN {"tray"} ELSE {})

\* a log of 20 reps of an exercise of the catalog; exercises are logged for
\* the first time in the order of their ids
VarietyLog ==
  /\ app = "tauri"
  /\ Len(exercise_logs) < MaxVarietyLogs
  /\ \E id \in DOMAIN exercises :
       /\ id \in loc \/ \A j \in DOMAIN exercises : j < id => j \in loc
       /\ \E who \in FrontEndsOf(id) :
            LET t == Reads(ReadsOf(who), ReadsOf(who) + 1)
                r == CASE who = "gui" -> log_exercise(DB, id, ConcReps, t, "none")
                       [] who = "tray" -> quick_log(DB, id, ConcReps, t, {})
                       [] who = "cli" -> cmd_log(DB, exercises[id].name, ConcReps,
                                                 t, "none")
            IN /\ SetDB(r.db)
               /\ last' = Call("log", who, r.status, ConcReps)
               /\ loc' = IF r.status = "Ok" THEN loc \cup {id} ELSE loc
  /\ UNCHANGED <<app, clock, pc, eguiVars>>

NextVariety == VarietyLog \/ DeleteExercise({"none"})

SpecVariety == InitVariety /\ [][NextVariety]_vars

\* ------------------------------------------------------------------------
\* Specification: readers of the statistics while a log call runs
\* ------------------------------------------------------------------------

\* what a reader of the statistics was given
Seen(who, stats) ==
  [op |-> "stats", who |-> who, status |-> "Ok", reps |-> 0,
   new_badges |-> << >>, seen |-> stats]

\* the fields printed by cmd_stats (cli.rs 317-332)
CliView(stats) ==
  [total_xp |-> stats.total_xp, total_level |-> stats.total_level,
   exercise_count |-> stats.exercise_count,
   current_streak |-> stats.current_streak,
   longest_streak |-> stats.longest_streak]

\* get_stats of the GUI (lib.rs 522-552) takes the lock of DbState: it runs
\* when no log call of the application's process holds it
GuiGetStats ==
  /\ \A q \in InProcess : pc[q] \in {"idle", "done"}
  /\ last' = Seen("gui", get_stats(DB))
  /\ UNCHANGED <<app, clock, tauriVars, concVars, eguiVars>>

\* cmd_stats (cli.rs 308-334) runs in its own process on its own connection;
\* its first SELECT reads the exercises
CliStatsExercises ==
  /\ pc["cli"] = "idle"
  /\ pc' = [pc EXCEPT !["cli"] = "stats"]
  /\ loc' = [loc EXCEPT !["cli"] = get_stats(DB)]
  /\ UNCHANGED <<app, clock, tauriVars, last, eguiVars>>

\* its second SELECT reads user_stats
CliStatsUser ==
  /\ pc["cli"] = "stats"
  /\ pc' = [pc EXCEPT !["cli"] = "idle"]
  /\ last' = Seen("cli", CliView([loc["cli"] EXCEPT
                                    !.current_streak = user_stats.current_streak,
                                    !.longest_streak = user_stats.longest_streak]))
  /\ UNCHANGED <<app, clock, tauriVars, loc, eguiVars>>

NextRead ==
  \/ \E p \in InProcess : ConcSelect(p)
  \/ \E p \in InProcess : ConcInsert(p)
  \/ \E p \in InProcess : ConcUpdateExercise(p)
  \/ \E p \in InProcess : ConcReadStats(p)
  \/ \E p \in InProcess : ConcUpdateStats(p)
  \/ ConcAchievements
  \/ GuiGetStats
  \/ CliStatsExercises
  \/ CliStatsUser

SpecRead == InitConc /\ [][NextRead]_vars

\* ------------------------------------------------------------------------
\* Specification: imports of good and bad files, with failures
\* ------------------------------------------------------------------------

\* import_data with any payload, any failing stage, and either setting of
\* the foreign-key enforcement
ImportAny ==
  /\ app = "tauri"
  /\ \E data \in ImportPayloads \cup {SnapshotC}, fail \in ImportFails,
        foreign_keys \in BOOLEAN :
       LET r == import_data(DB, data, fail, foreign_keys)
       IN /\ SetDB(r.db)
          /\ last' = Call("import", "gui", r.status, 0)
  /\ UNCHANGED <<app, clock, concVars, eguiVars>>

NextImport ==
  \/ DayPasses(MaxDay)
  \/ TauriLog({ConcReps}, MaxLogs, clock)
  \/ EguiLog({"PushUps"}, {12}, MaxLogs, clock)
  \/ ImportAny
  \/ ImportFrom({"none", "read", "save"})

SpecImport == Init /\ [][NextImport]_vars

\* ------------------------------------------------------------------------
\* Specification: resets, with failures at each of their statements
\* ------------------------------------------------------------------------

\* a reset that fails after it deleted the logs leaves the XP of the
\* exercises, and the logs that follow add to it: logs are made while every
\* exercise has less than MaxResetXp
MaxResetXp == 400

BelowMaxResetXp == \A i \in DOMAIN exercises : exercises[i].total_xp < MaxResetXp

NextReset ==
  \/ DayPasses(MaxDay)
  \/ BelowMaxResetXp /\ TauriLog({ConcReps}, MaxLogs, clock)
  \/ EguiLog({"PushUps"}, {12}, MaxLogs, clock)
  \/ AddExercise({"none"})
  \/ ResetAllData({"reset"})
  \/ StorageReset({"none", "save_before", "backup", "save_after"})

SpecReset == Init /\ [][NextReset]_vars

\* ------------------------------------------------------------------------
\* Specification: logs over several days under a clock that only advances
\* ------------------------------------------------------------------------

NextForward ==
  \/ DayPasses(MaxClockDay)
  \/ TauriLog({ConcReps}, MaxClockLogs, MaxClockDay)
  \/ EguiLog({"PushUps"}, {12}, MaxClockLogs, MaxClockDay)

SpecForward == Init /\ [][NextForward]_vars

\* ------------------------------------------------------------------------
\* Specification: find_exercise of the CLI on catalogs of several names
\* ------------------------------------------------------------------------

\* rows of the catalogs searched
MaxCatalog == 3

Ups == << "u", "p", "s" >>

\* names given to add_exercise
LookupNames == {Push, Ups, Situps}

\* the searches tried: names in other cases, fragments, and fragments with
\* the characters _ and %
LookupSearches ==
  { << "p", "u", "s", "h", "u", "p", "s" >>, << "P", "U", "S", "H" >>,
    << "U", "p", "s" >>, << "s", "i", "t" >>, << "s", "_", "t" >>,
    << "_" >>, << "%" >>, << "z" >> }

InitLookup ==
  /\ app = "tauri"
  /\ clock = 1
  /\ exercises = init_database.exercises
  /\ exercise_seq = init_database.exercise_seq
  /\ exercise_logs = init_database.exercise_logs
  /\ user_stats = init_database.user_stats
  /\ achievements = init_database.achievements
  /\ last = Call("init", "none", "Ok", 0)
  /\ pc = [p \in Procs |-> "idle"]
  /\ loc = Returned("none", << >>, NULL)
  /\ progress = DefaultProgress
  /\ file = [exists |-> FALSE, contents |-> DefaultProgress]

\* add_exercise with one of the names; loc forgets the last search, which
\* was made against the catalog before
LookupAdd ==
  /\ Cardinality(DOMAIN exercises) < MaxCatalog
  /\ \E name \in LookupNames :
       LET r == add_exercise(DB, name, 5, "none")
       IN /\ SetDB(r.db)
          /\ last' = Call("add", "gui", r.status, 0)
  /\ loc' = Returned("none", << >>, NULL)
  /\ UNCHANGED <<app, clock, pc, eguiVars>>

CallFindExercise ==
  /\ \E search \in LookupSearches :
       loc' = Returned("find_exercise", search, find_exercise(DB, search))
  /\ UNCHANGED <<app, clock, tauriVars, last, pc, eguiVars>>

NextLookup == LookupAdd \/ CallFindExercise

SpecLookup == InitLookup /\ [][NextLookup]_vars

\* ------------------------------------------------------------------------
\* Specification: the reminder scheduler and the loop that reads its messages
\* ------------------------------------------------------------------------

\* messages kept in the channel at a time (the mpsc channel has no limit)
MaxChannel == 2

\* SchedulerMessage (scheduler.rs 15-27)
Message(kind, exercise, reps) == [kind |-> kind, exercise |-> exercise, reps |-> reps]

\* a variant of the loop that logs the exercise of a reminder by itself
on_message_logs(p, f, message) ==
  IF message.kind = "ExerciseReminder"
  THEN LET r == storage_record_exercise(p, f, message.exercise, message.reps,
                                        [k \in 1..4 |-> 1], 12, FALSE)
       IN [progress |-> r.progress, file |-> r.file]
  ELSE [progress |-> p, file |-> f]

\* the arms of `match message` in run_tray_loop (main.rs 345-363): a
\* reminder is shown as a notification, the other messages are written to
\* the log; the progress and its file are not touched
on_message(p, f, message) == [progress |-> p, file |-> f]

\* pc.scheduler is the state of the scheduler thread; loc.channel holds the
\* messages sent and not yet received, loc.enabled the flag `enabled`
InitSched ==
  /\ app = "egui"
  /\ clock = 1
  /\ exercises = init_database.exercises
  /\ exercise_seq = init_database.exercise_seq
  /\ exercise_logs = init_database.exercise_logs
  /\ user_stats = init_database.user_stats
  /\ achievements = init_database.achievements
  /\ last = Call("init", "none", "Ok", 0)
  /\ pc = [scheduler |-> "new"]
  /\ loc \in {[channel |-> << >>, enabled |-> e] : e \in BOOLEAN}
  /\ progress = DefaultProgress
  /\ file = [exists |-> FALSE, contents |-> DefaultProgress]

Send(message) == loc' = [loc EXCEPT !.channel = Append(@, message)]

\* Scheduler::start (scheduler.rs 63-143): the thread is spawned and sends
\* Started
SchedulerStart ==
  /\ pc.scheduler = "new"
  /\ pc' = [pc EXCEPT !.scheduler = "running"]
  /\ Send(Message("Started", "none", 0))
  /\ UNCHANGED <<app, clock, tauriVars, last, eguiVars>>

\* one round of the thread's loop at which a reminder is due (scheduler.rs
\* 93-134): a reminder is sent when reminders are enabled and the time is
\* within work hours
SchedulerRound ==
  /\ pc.scheduler = "running"
  /\ Len(loc.channel) < MaxChannel
  /\ \E is_work_hours \in BOOLEAN, exercise \in EguiTypes :
       IF loc.enabled /\ is_work_hours
       THEN Send(Message("ExerciseReminder", exercise, default_reps(exercise)))
       ELSE UNCHANGED loc
  /\ UNCHANGED <<app, clock, tauriVars, last, pc, eguiVars>>

\* the thread leaves its loop after stop() and sends Stopped (scheduler.rs
\* 137-138, 146-157)
SchedulerStop ==
  /\ pc.scheduler = "running"
  /\ Len(loc.channel) < MaxChannel
  /\ pc' = [pc EXCEPT !.scheduler = "stopped"]
  /\ Send(Message("Stopped", "none", 0))
  /\ UNCHANGED <<app, clock, tauriVars, last, eguiVars>>

\* run_tray_loop receives one message (main.rs 344-364)
ReceiveMessage ==
  /\ loc.channel # << >>
  /\ LET message == Head(loc.channel)
         r == on_message(progress, file, message)
     IN /\ progress' = r.progress
        /\ file' = r.file
        /\ last' = Call(message.kind, "scheduler", "Ok", message.reps)
  /\ loc' = [loc EXCEPT !.channel = Tail(@)]
  /\ UNCHANGED <<app, clock, tauriVars, pc>>

NextSched ==
  \/ DayPasses(MaxDay)
  \/ SchedulerStart
  \/ SchedulerRound
  \/ SchedulerStop
  \/ ReceiveMessage
  \/ EguiLog(EguiTypes, {12}, MaxLogs, clock)

SpecSched == InitSched /\ [][NextSched]_vars

\* ------------------------------------------------------------------------
\* Specification: deletions and imports over a ledger that has logs
\* ------------------------------------------------------------------------

\* delete_exercise with a failure at either of its two statements, and
\* import_data with any payload.  A delete that fails midway removes the
\* logs and keeps the XP: logs are taken while the XP is below MaxResetXp.
NextLedger ==
  \/ DayPasses(MaxDay)
  \/ BelowMaxResetXp /\ TauriLog({ConcReps}, MaxLogs, clock)
  \/ AddExercise({"none"})
  \/ DeleteExercise({"none", "delete_logs", "delete_exercise"})
  \/ ImportAny

SpecLedger == Init /\ [][NextLedger]_vars

\* ------------------------------------------------------------------------
\* Specification: logs of any reps value over several days
\* ------------------------------------------------------------------------

NextTransition ==
  \/ DayPasses(MaxClockDay)
  \/ TauriLog(RepsChoices, MaxClockLogs, MaxClockDay)
  \/ EguiLog(EguiTypes, {12}, MaxClockLogs, MaxClockDay)

SpecTransition == Init /\ [][NextTransition]_vars

\* ------------------------------------------------------------------------
\* Specification: Storage::record_exercise called from two threads,
\* statement by statement (storage.rs 71-143)
\* ------------------------------------------------------------------------

\* calls made by each thread
MaxSaveCalls == 1

\* the thread of run_tray_loop and the thread of the GUI window (main.rs
\* 240-257); each holds an Arc of the same AppState
SaveThreads == {"gui", "tray"}

\* the exercise each thread logs
SaveExercise(p) == IF p = "gui" THEN "PushUps" ELSE "Planks"

\* a file that was created or truncated and not yet written
Truncated == [truncated |-> TRUE]

NoInode == 0

\* the progress file as a reader of data_path finds it: loc.data and
\* loc.tmp are the inodes that data_path and its ".tmp" sibling name,
\* loc.contents[i] the contents of inode i
DataFile(l) ==
  IF l.data = NoInode
  THEN [exists |-> FALSE, contents |-> DefaultProgress]
  ELSE [exists |-> TRUE, contents |-> l.contents[l.data]]

\* loc.readers: the threads that hold the read lock of the progress;
\* loc.snap[p]: the progress p serialized; loc.fd[p]: the inode p has open;
\* loc.calls[p]: the calls p has made; loc.replaced: the last rename
\* replaced the progress file
InitSave ==
  /\ app = "save"
  /\ clock = 1
  /\ exercises = init_database.exercises
  /\ exercise_seq = init_database.exercise_seq
  /\ exercise_logs = init_database.exercise_logs
  /\ user_stats = init_database.user_stats
  /\ achievements = init_database.achievements
  /\ last = Call("init", "none", "Ok", 0)
  /\ pc = [p \in SaveThreads |-> "idle"]
  /\ loc = [tmp |-> NoInode, data |-> NoInode, contents |-> << >>,
            readers |-> {}, snap |-> [p \in SaveThreads |-> DefaultProgress],
            fd |-> [p \in SaveThreads |-> NoInode],
            calls |-> [p \in SaveThreads |-> 0]]
  /\ progress = DefaultProgress
  /\ file = DataFile(loc)

SaveFrame == UNCHANGED <<app, clock, tauriVars>>

\* Storage::update (storage.rs 121-125): the closure runs under the write
\* lock, which no reader may hold, and the lock is released
SaveUpdate(p) ==
  /\ pc[p] = "idle"
  /\ loc.calls[p] < MaxSaveCalls
  /\ loc.readers = {}
  /\ progress' = record_exercise(progress, SaveExercise(p),
                                 default_reps(SaveExercise(p)),
                                 [k \in 1..4 |-> clock], 12).progress
  /\ pc' = [pc EXCEPT ![p] = "updated"]
  /\ loc' = [loc EXCEPT !.calls[p] = @ + 1]
  /\ UNCHANGED <<last, file>>
  /\ SaveFrame

\* Storage::save (storage.rs 73-83): create_dir_all, and the copy of the
\* existing file to the backup path, whose failure is only logged; the
\* progress file is read, not written
SaveBackup(p) ==
  /\ pc[p] = "updated"
  /\ pc' = [pc EXCEPT ![p] = "backed_up"]
  /\ UNCHANGED <<last, loc, eguiVars>>
  /\ SaveFrame

\* storage.rs 86-90: the read lock is taken, to be held until save returns,
\* and the progress is serialized
SaveSerialize(p) ==
  /\ pc[p] = "backed_up"
  /\ pc' = [pc EXCEPT ![p] = "serialized"]
  /\ loc' = [loc EXCEPT !.readers = @ \cup {p}, !.snap[p] = progress]
  /\ UNCHANGED <<last, eguiVars>>
  /\ SaveFrame

\* fs::write (storage.rs 94) opens the temp path, creating the file or
\* truncating the one that is there ...
SaveOpenTemp(p) ==
  /\ pc[p] = "serialized"
  /\ pc' = [pc EXCEPT ![p] = "opened"]
  /\ LET i == IF loc.tmp = NoInode THEN Len(loc.contents) + 1 ELSE loc.tmp
     IN loc' = [loc EXCEPT
                  !.tmp = i,
                  !.fd[p] = i,
                  !.contents = [k \in DOMAIN @ \cup {i} |->
                                  IF k = i THEN Truncated ELSE @[k]]]
  /\ file' = DataFile(loc')
  /\ UNCHANGED <<last, progress>>
  /\ SaveFrame

\* ... and writes the serialized progress to the file it opened
SaveWriteTemp(p) ==
  /\ pc[p] = "opened"
  /\ pc' = [pc EXCEPT ![p] = "written"]
  /\ loc' = [loc EXCEPT !.contents[loc.fd[p]] = loc.snap[p]]
  /\ file' = DataFile(loc')
  /\ UNCHANGED <<last, progress>>
  /\ SaveFrame

\* fs::rename (storage.rs 97-98) of the temp path to data_path: it fails
\* when no file has that name; then save, update and record_exercise return
\* the error (`?`).  The read lock is released when save returns.
SaveRename(p) ==
  /\ pc[p] = "written"
  /\ pc' = [pc EXCEPT ![p] = "idle"]
  /\ IF loc.tmp = NoInode
     THEN /\ loc' = [loc EXCEPT !.readers = @ \ {p}]
          /\ last' = Call("log", p, "PersistenceFailure",
                          default_reps(SaveExercise(p)))
     ELSE /\ loc' = [loc EXCEPT !.readers = @ \ {p}, !.data = loc.tmp,
                                !.tmp = NoInode]
          /\ last' = Call("log", p, "Ok", default_reps(SaveExercise(p)))
  /\ file' = DataFile(loc')
  /\ UNCHANGED progress
  /\ SaveFrame

NextSave ==
  \E p \in SaveThreads :
    \/ SaveUpdate(p)
    \/ SaveBackup(p)
    \/ SaveSerialize(p)
    \/ SaveOpenTemp(p)
    \/ SaveWriteTemp(p)
    \/ SaveRename(p)

SpecSave == InitSave /\ [][NextSave]_vars

\* ------------------------------------------------------------------------
\* Specification: the scheduler and the ToggleReminders actions
\* ------------------------------------------------------------------------

\* main (main.rs 231-236): the scheduler is built from a clone of the live
\* configuration, so its flag starts equal to reminders.enabled;
\* loc.reminders_enabled is the field of the live configuration
\* (AppState.config)
InitToggle ==
  /\ app = "egui"
  /\ clock = 1
  /\ exercises = init_database.exercises
  /\ exercise_seq = init_database.exercise_seq
  /\ exercise_logs = init_database.exercise_logs
  /\ user_stats = init_database.user_stats
  /\ achievements = init_database.achievements
  /\ last = Call("init", "none", "Ok", 0)
  /\ pc = [scheduler |-> "new"]
  /\ loc \in {[channel |-> << >>, enabled |-> e, reminders_enabled |-> e] :
                e \in BOOLEAN}
  /\ progress = DefaultProgress
  /\ file = [exists |-> FALSE, contents |-> DefaultProgress]

\* TrayAction::ToggleReminders (main.rs 311-326) and
\* GuiAction::ToggleReminders (main.rs 191-195): the field of the live
\* configuration is negated and the configuration saved; the tray also
\* notifies "Exercise reminders are now enabled/disabled" (last.status)
ToggleReminders(who) ==
  /\ loc' = [loc EXCEPT !.reminders_enabled = ~@]
  /\ last' = Call("toggle", who,
                  IF loc'.reminders_enabled THEN "enabled" ELSE "disabled", 0)
  /\ UNCHANGED <<app, clock, tauriVars, pc, eguiVars>>

NextToggle ==
  \/ SchedulerStart
  \/ SchedulerRound
  \/ SchedulerStop
  \/ ReceiveMessage
  \/ \E who \in {"tray", "gui"} : ToggleReminders(who)

SpecToggle == InitToggle /\ [][NextToggle]_vars

\* ------------------------------------------------------------------------
\* Specification: start, stop and trigger_immediate of the Scheduler, and
\* its thread step by step (scheduler.rs 62-221)
\* ------------------------------------------------------------------------

\* messages sent on the channel in one run, and calls of start()
MaxSent == 4

MaxStarts == 2

\* pc.thread: the state of the thread last spawned; pc.owner: the owner of
\* the Scheduler, "joining" inside stop().  loc.sent: every message sent on
\* the channel, in order; loc.running, loc.enabled: the two AtomicBools;
\* loc.handle: whether `handle` is Some; loc.threads: the threads spawned
\* that have not terminated; loc.starts: the calls of start()
InitStop ==
  /\ app = "egui"
  /\ clock = 1
  /\ exercises = init_database.exercises
  /\ exercise_seq = init_database.exercise_seq
  /\ exercise_logs = init_database.exercise_logs
  /\ user_stats = init_database.user_stats
  /\ achievements = init_database.achievements
  /\ last = Call("init", "none", "Ok", 0)
  /\ pc = [thread |-> "none", owner |-> "idle"]
  /\ loc \in {[sent |-> << >>, running |-> FALSE, enabled |-> e,
               handle |-> FALSE, threads |-> 0, starts |-> 0] : e \in BOOLEAN}
  /\ progress = DefaultProgress
  /\ file = [exists |-> FALSE, contents |-> DefaultProgress]

StopFrame == UNCHANGED <<app, clock, tauriVars, eguiVars>>

SendOn(l, kind) == [l EXCEPT !.sent = Append(@, kind)]

\* Scheduler::start (scheduler.rs 63-76, 141-142): nothing is done when
\* running is set; otherwise running is set and the thread is spawned
StartCall ==
  /\ pc.owner = "idle"
  /\ loc.starts < MaxStarts
  /\ IF loc.running
     THEN /\ loc' = [loc EXCEPT !.starts = @ + 1]
          /\ last' = Call("start", "owner", "AlreadyRunning", 0)
          /\ UNCHANGED pc
     ELSE /\ loc' = [loc EXCEPT !.starts = @ + 1, !.running = TRUE,
                                !.handle = TRUE, !.threads = @ + 1]
          /\ last' = Call("start", "owner", "Ok", 0)
          /\ pc' = [pc EXCEPT !.thread = "spawned"]
  /\ StopFrame

\* the thread sends Started (scheduler.rs 79-81)
ThreadSendStarted ==
  /\ pc.thread = "spawned"
  /\ pc' = [pc EXCEPT !.thread = "testing"]
  /\ loc' = SendOn(loc, "Started")
  /\ UNCHANGED last
  /\ StopFrame

\* `while running.load(..)` (scheduler.rs 91): the loop is entered or left
ThreadTestRunning ==
  /\ pc.thread = "testing"
  /\ pc' = [pc EXCEPT !.thread = IF loc.running THEN "in_loop" ELSE "leaving"]
  /\ UNCHANGED <<last, loc>>
  /\ StopFrame

\* the body of the loop (scheduler.rs 92-134): after the sleep a reminder is
\* sent when one is due, reminders are enabled and it is work hours
ThreadRound ==
  /\ pc.thread = "in_loop"
  /\ pc' = [pc EXCEPT !.thread = "testing"]
  /\ \E due \in BOOLEAN, is_work_hours \in BOOLEAN :
       IF due /\ loc.enabled /\ is_work_hours /\ Len(loc.sent) < MaxSent
       THEN loc' = SendOn(loc, "ExerciseReminder")
       ELSE UNCHANGED loc
  /\ UNCHANGED last
  /\ StopFrame

\* the thread sends Stopped and terminates (scheduler.rs 137-139)
ThreadLeave ==
  /\ pc.thread = "leaving"
  /\ pc' = [pc EXCEPT !.thread = "terminated"]
  /\ loc' = [SendOn(loc, "Stopped") EXCEPT !.threads = @ - 1]
  /\ UNCHANGED last
  /\ StopFrame

\* Scheduler::stop (scheduler.rs 146-149), also called by drop (217-221):
\* running is cleared and the handle taken
StopCall ==
  /\ pc.owner = "idle"
  /\ loc' = [loc EXCEPT !.running = FALSE, !.handle = FALSE]
  /\ pc' = [pc EXCEPT !.owner = IF loc.handle THEN "joining" ELSE "idle"]
  /\ last' = Call("stop", "owner", IF loc.handle THEN "Joining" ELSE "Ok", 0)
  /\ StopFrame

\* handle.join() returns when the thread has terminated (scheduler.rs 150-155)
StopJoin ==
  /\ pc.owner = "joining"
  /\ pc.thread = "terminated"
  /\ pc' = [pc EXCEPT !.owner = "idle"]
  /\ last' = Call("stop", "owner", "Ok", 0)
  /\ UNCHANGED loc
  /\ StopFrame

\* Scheduler::set_enabled (scheduler.rs 164-167)
SetEnabled ==
  /\ pc.owner = "idle"
  /\ \E value \in BOOLEAN : loc' = [loc EXCEPT !.enabled = value]
  /\ UNCHANGED <<last, pc>>
  /\ StopFrame

\* Scheduler::trigger_immediate (scheduler.rs 194-214): a reminder is sent
\* by the caller when reminders are enabled
TriggerImmediate ==
  /\ pc.owner = "idle"
  /\ Len(loc.sent) < MaxSent
  /\ IF loc.enabled
     THEN loc' = SendOn(loc, "ExerciseReminder")
     ELSE UNCHANGED loc
  /\ last' = Call("trigger", "owner", IF loc.enabled THEN "Ok" ELSE "Disabled", 0)
  /\ UNCHANGED pc
  /\ StopFrame

NextStop ==
  \/ StartCall
  \/ ThreadSendStarted
  \/ ThreadTestRunning
  \/ ThreadRound
  \/ ThreadLeave
  \/ StopCall
  \/ StopJoin
  \/ SetEnabled
  \/ TriggerImmediate

\* the thread is scheduled, and join returns once the thread has terminated
SpecStop ==
  /\ InitStop
  /\ [][NextStop]_vars
  /\ WF_vars(ThreadSendStarted) /\ WF_vars(ThreadTestRunning)
  /\ WF_vars(ThreadRound) /\ WF_vars(ThreadLeave) /\ WF_vars(StopJoin)

\* ------------------------------------------------------------------------
\* export_data (lib.rs 658-776), get_settings (lib.rs 609-630) and the
\* settings part of import_data (lib.rs 843-870)
\* ------------------------------------------------------------------------

\* the rows of a table in the order of their ids, each with its id
RECURSIVE RowsById(_, _)
RowsById(table, ids) ==
  IF ids = {} THEN << >>
  ELSE LET i == CHOOSE x \in ids : \A y \in ids : x <= y
       IN << [id |-> i, name |-> table[i].name,
              xp_per_rep |-> table[i].xp_per_rep,
              total_xp |-> table[i].total_xp,
              current_level |-> table[i].current_level] >>
            \o RowsById(table, ids \ {i})

\* the rows numbered from 1, whatever their ids
RECURSIVE Renumbered(_, _)
Renumbered(rows, k) ==
  IF k > Len(rows) THEN << >>
  ELSE << [rows[k] EXCEPT !.id = k] >> \o Renumbered(rows, k + 1)

\* str::parse::<i32> on the values the runs store, and i32::to_string
NotANumber == -1

ParseI32(value) ==
  CASE value = "60" -> 60 [] value = "120" -> 120 [] value = "500" -> 500
    [] OTHER -> NotANumber

I32ToString(n) ==
  CASE n = 60 -> "60" [] n = 120 -> "120" [] n = 500 -> "500"

BoolToString(b) == IF b THEN "true" ELSE "false"

\* the closure get_setting: the value of the row, or the default
get_setting(settings, key, default) ==
  IF key \in DOMAIN settings THEN settings[key] ELSE default

OrDefault(n, default) == IF n = NotANumber THEN default ELSE n

\* the Settings record built by get_settings and by export_data (755-763)
get_settings(settings) ==
  [reminder_enabled |-> get_setting(settings, "reminder_enabled", "true") = "true",
   reminder_interval_minutes |->
     OrDefault(ParseI32(get_setting(settings, "reminder_interval_minutes", "120")), 120),
   sound_enabled |-> get_setting(settings, "sound_enabled", "true") = "true",
   daily_goal_xp |->
     OrDefault(ParseI32(get_setting(settings, "daily_goal_xp", "500")), 500),
   theme_mode |-> get_setting(settings, "theme_mode", "dark")]

export_data_renumbered(d, settings) ==
  [exercises |-> Renumbered(RowsById(d.exercises, DOMAIN d.exercises), 1),
   exercise_logs |-> d.exercise_logs,
   user_stats |-> d.user_stats,
   achievements |-> d.achievements,
   settings |-> get_settings(settings)]

\* export_data: the tables row by row, and the Settings record
export_data(d, settings) ==
  [exercises |-> RowsById(d.exercises, DOMAIN d.exercises),
   exercise_logs |-> d.exercise_logs,
   user_stats |-> d.user_stats,
   achievements |-> d.achievements,
   settings |-> get_settings(settings)]

\* INSERT OR REPLACE INTO settings, for the five keys (lib.rs 843-870)
import_settings(settings, s) ==
  LET written ==
        [reminder_enabled |-> BoolToString(s.reminder_enabled),
         reminder_interval_minutes |-> I32ToString(s.reminder_interval_minutes),
         sound_enabled |-> BoolToString(s.sound_enabled),
         daily_goal_xp |-> I32ToString(s.daily_goal_xp),
         theme_mode |-> s.theme_mode]
  IN [k \in DOMAIN settings \cup DOMAIN written |->
        IF k \in DOMAIN written THEN written[k] ELSE settings[k]]

\* the settings seeded by init_database (lib.rs 248-260)
DefaultSettings ==
  [reminder_enabled |-> "true", reminder_interval_minutes |-> "120",
   sound_enabled |-> "true", daily_goal_xp |-> "500"]

\* ------------------------------------------------------------------------
\* Specification: export_data followed by import_data of what it returned
\* ------------------------------------------------------------------------

\* loc.settings is the settings table; loc.foreign_keys is whether SQLite
\* enforces foreign keys on the connection, fixed for the run
InitRound ==
  /\ app = "tauri"
  /\ clock = 1
  /\ exercises = init_database.exercises
  /\ exercise_seq = init_database.exercise_seq
  /\ exercise_logs = init_database.exercise_logs
  /\ user_stats = init_database.user_stats
  /\ achievements = init_database.achievements
  /\ last = Call("init", "none", "Ok", 0)
  /\ pc = [p \in Procs |-> "idle"]
  /\ loc \in {[settings |-> DefaultSettings, foreign_keys |-> fk] :
                fk \in BOOLEAN}
  /\ progress = DefaultProgress
  /\ file = [exists |-> FALSE, contents |-> DefaultProgress]

\* the calls of update_setting made in the runs
SettingChanges ==
  { << "reminder_enabled", "false" >>, << "reminder_interval_minutes", "60" >>,
    << "reminder_interval_minutes", "abc" >>, << "theme_mode", "light" >> }

\* update_setting (lib.rs 632-643): any key and any text are stored
UpdateSetting ==
  /\ \E change \in SettingChanges :
       LET key == change[1]
           value == change[2]
       IN loc' = [loc EXCEPT !.settings =
                 [k \in DOMAIN @ \cup {key} |-> IF k = key THEN value ELSE @[k]]]
  /\ last' = Call("update_setting", "gui", "Ok", 0)
  /\ UNCHANGED <<app, clock, tauriVars, pc, eguiVars>>

\* import_data of a file on the connection of the run
ImportFile ==
  \E data \in ImportPayloads \cup {SnapshotC} :
    LET r == import_data(DB, data, "none", loc.foreign_keys)
    IN /\ SetDB(r.db)
       /\ last' = Call("import", "gui", r.status, 0)
       /\ UNCHANGED <<app, clock, concVars, eguiVars>>

\* export_data, then import_data of the text it returned
ExportThenImport ==
  LET data == export_data(DB, loc.settings)
      r == import_data(DB, data, "none", loc.foreign_keys)
  IN /\ SetDB(r.db)
     /\ loc' = [loc EXCEPT !.settings =
                  IF r.status = "Ok" THEN import_settings(@, data.settings) ELSE @]
     /\ last' = Call("roundtrip", "gui", r.status, 0)
     /\ UNCHANGED <<app, clock, pc, eguiVars>>

NextRound ==
  \/ DayPasses(MaxDay)
  \/ BelowMaxResetXp /\ TauriLog({ConcReps}, MaxLogs, clock)
  \/ AddExercise({"none"})
  \/ DeleteExercise({"none"})
  \/ ImportFile
  \/ UpdateSetting
  \/ ExportThenImport

SpecRound == InitRound /\ [][NextRound]_vars

\* ------------------------------------------------------------------------
\* Properties
\* ------------------------------------------------------------------------

\* sum of xp_earned over the log rows that reference exercise i
LoggedXp(i) ==
  SumOver([k \in DOMAIN exercise_logs |-> exercise_logs[k].xp_earned],
          {k \in DOMAIN exercise_logs : exercise_logs[k].exercise_id = i})

NoDuplicate(seq) == \A i, j \in DOMAIN seq : seq[i] = seq[j] => i = j

IsPrefix(a, b) == Len(a) <= Len(b) /\ SubSeq(b, 1, Len(a)) = a

\* a step that is a log call of the badge engine
EguiLogStep == progress'.total_exercises = progress.total_exercises + 1

\* a step that is a log call of the SQLite engine that appended its entry
TauriLogStep == Len(exercise_logs') = Len(exercise_logs) + 1

\* C1: a log call in which a durable write fails leaves the log entries, the
\* exercises' XP and levels, the streak state, the achievements and the
\* badge engine's progress as they were before the call.
C1_FailedLogChangesNothing ==
  [][(last'.op = "log" /\ last'.status = "PersistenceFailure")
       => (tauriVars' = tauriVars /\ progress' = progress /\ file' = file)]_vars

\* C2: once the GUI command, the tray handler and the CLI have each completed
\* one concurrent log call, all three log entries exist, the exercise's
\* total_xp is its initial value plus the xp_earned of all three, and the
\* streak is the one that the calls made one after the other give.
C2_ConcurrentLogsAddUp ==
  (\A p \in Procs : pc[p] = "done")
    => /\ Len(exercise_logs) = Cardinality(Procs)
       /\ exercises[1].total_xp = LoggedXp(1)
       /\ exercises[1].current_level = level_from_xp(exercises[1].total_xp)
       /\ user_stats = [current_streak |-> 1, longest_streak |-> 1,
                        last_exercise_date |-> clock]

\* C3: in every reachable state each exercise's stored current_level is
\* level_from_xp(total_xp) and lies in 1..99.
C3_LevelIsLevelFromXp ==
  \A i \in DOMAIN exercises :
    /\ exercises[i].current_level = level_from_xp(exercises[i].total_xp)
    /\ exercises[i].current_level \in 1..99

\* C4: in every reachable state each exercise's total_xp is the sum of
\* xp_earned over the log entries that reference it.
C4_TotalXpIsSumOfLogs ==
  \A i \in DOMAIN exercises : exercises[i].total_xp = LoggedXp(i)

\* C5: after every step longest_streak >= current_streak, and no step other
\* than a full reset lowers longest_streak (in either engine).
C5_LongestStreakBoundsCurrent ==
  [][/\ user_stats'.longest_streak >= user_stats'.current_streak
     /\ progress'.longest_streak >= progress'.current_streak
     /\ last'.op # "reset"
          => /\ user_stats'.longest_streak >= user_stats.longest_streak
             /\ progress'.longest_streak >= progress.longest_streak]_vars

\* what C6 asks of a step that is not exempted: a set unlocked_at keeps its
\* value, the badges list only grows at its end and has no duplicate, and a
\* log call of the badge engine returns as new only badges not held before
KeepsUnlocks ==
  /\ \A k \in AchKeySet :
       achievements[k] # NULL => achievements'[k] = achievements[k]
  /\ IsPrefix(progress.badges, progress'.badges)
  /\ NoDuplicate(progress'.badges)
  /\ EguiLogStep =>
       /\ \A i \in DOMAIN last'.new_badges :
            ~Contains(progress.badges, last'.new_badges[i])
       /\ progress'.badges = progress.badges \o last'.new_badges

C7_NonPositiveRepsRejected ==
  [][(last'.op = "log" /\ last'.reps <= 0)
       => (last'.status = "InvalidInput" /\ tauriVars' = tauriVars)]_vars

\* the references tried against the current exercises
IdChoices == 1..(MaxId + 1)

NoMidnight(n) == [k \in 1..n |-> clock]

C9_FrontEndsAgree ==
  app = "tauri" =>
    \A exercise_id \in DOMAIN exercises, reps \in RepsChoices :
      LET g == log_exercise(DB, exercise_id, reps, NoMidnight(5), "none")
          t == quick_log(DB, exercise_id, reps, NoMidnight(3), {})
          c == cli_log_exercise(DB, exercise_id, reps, NoMidnight(3), "none")
      IN g.db = t.db /\ g.db = c.db

DBNext ==
  [exercises |-> exercises', exercise_seq |-> exercise_seq',
   exercise_logs |-> exercise_logs', user_stats |-> user_stats',
   achievements |-> achievements']

OkLogStep ==
  /\ last'.op = "log" /\ last'.status = "Ok"
  /\ TauriLogStep \/ EguiLogStep

C12_FutureDateResetsStreak ==
  [][OkLogStep =>
       /\ (user_stats.last_exercise_date > clock')
            => /\ user_stats'.current_streak = 1
               /\ user_stats'.last_exercise_date \in {clock, clock'}
       /\ (progress.last_exercise_date > clock')
            => /\ progress'.current_streak = 1
               /\ progress'.last_exercise_date \in {clock, clock'}]_vars

\* C13: week_streak (month_streak) is unlocked by every successful log whose
\* resulting current_streak is >= 7 (>= 30) and stays locked after a log
\* whose resulting streak is lower; the same for the badges MarathonCoder
\* and ConsistentShipper of the badge engine.
C13_StreakAchievementsAtThreshold ==
  [][OkLogStep =>
       /\ app = "tauri" =>
            /\ achievements'["week_streak"] # NULL
                 <=> (achievements["week_streak"] # NULL
                        \/ user_stats'.current_streak >= 7)
            /\ achievements'["month_streak"] # NULL
                 <=> (achievements["month_streak"] # NULL
                        \/ user_stats'.current_streak >= 30)
       /\ app = "egui" =>
            /\ Contains(progress'.badges, "MarathonCoder")
                 <=> (Contains(progress.badges, "MarathonCoder")
                        \/ progress'.current_streak >= 7)
            /\ Contains(progress'.badges, "ConsistentShipper")
                 <=> (Contains(progress.badges, "ConsistentShipper")
                        \/ progress'.current_streak >= 30)]_vars

\* C14: level_from_xp at the threshold of level L (1 <= L <= 99) is L, and
\* one XP below the threshold of a level L > 1 it is L - 1.
C14_ThresholdRoundTrip ==
  loc.fn = "level_from_xp" =>
    \A L \in 1 .. 99 :
      /\ loc.arg = xp_for_level(L) => loc.result = L
      /\ (L > 1 /\ loc.arg = xp_for_level(L) - 1) => loc.result = L - 1

C14_Witness ==
  /\ loc.fn = "level_from_xp"
  /\ loc.arg = xp_for_level(50) - 1
  /\ loc.result = 49

\* C15: xp_for_level(1) is 0 and xp_for_level(L) < xp_for_level(L + 1) for
\* every 1 <= L < 99.
C15_ThresholdsStrictlyIncrease ==
  loc.fn = "xp_for_level" =>
    /\ loc.arg = 1 => loc.result = 0
    /\ loc.arg \in 1 .. 98 => loc.result < xp_for_level(loc.arg + 1)

C15_Witness ==
  /\ loc.fn = "xp_for_level"
  /\ loc.arg = 98
  /\ loc.result > 0
  /\ loc.result < xp_for_level(99)

\* C16: for xp >= 0, level_from_xp(xp) is the largest L in 1..99 whose
\* threshold is at most xp: 1 below the threshold of level 2, and 99 from
\* the threshold of level 99 on, however large xp is.
C16_LevelIsLargestReached ==
  (loc.fn = "level_from_xp" /\ loc.arg >= 0) =>
    /\ loc.result \in 1 .. 99
    /\ xp_for_level(loc.result) <= loc.arg
    /\ \A L \in 1 .. 99 : xp_for_level(L) <= loc.arg => L <= loc.result
    /\ loc.arg < xp_for_level(2) => loc.result = 1
    /\ loc.arg >= xp_for_level(99) => loc.result = 99

C16_Witness ==
  /\ loc.fn = "level_from_xp"
  /\ loc.arg = BigXp
  /\ loc.result = 99

\* C17: for every successful log with reps > 0 the xp_earned of the new log
\* row is the mathematical product xp_per_rep * reps, the total_xp of the
\* exercise grows by exactly that amount, and its current_level is
\* level_from_xp of the new total.
C17_XpEarnedIsProduct ==
  [][(last'.op = "log" /\ last'.status = "Ok" /\ last'.reps > 0 /\ TauriLogStep) =>
       LET row == exercise_logs'[Len(exercise_logs')]
           id == row.exercise_id
           xp_per_rep == exercises[id].xp_per_rep
       IN /\ row.reps = last'.reps
          /\ row.xp_earned % xp_per_rep = 0
          /\ row.xp_earned \div xp_per_rep = row.reps
          /\ exercises'[id].total_xp = exercises[id].total_xp + row.xp_earned
          /\ exercises'[id].current_level = level_from_xp(exercises'[id].total_xp)]_vars

\* C18: a successful log through any entry point leaves first_exercise
\* unlocked (FirstCommit awarded in the badge engine): the first log ever
\* unlocks it, and a later one finds it unlocked.
C18_FirstLogUnlocksFirstExercise ==
  [][OkLogStep =>
       /\ app = "tauri" => achievements'["first_exercise"] # NULL
       /\ app = "egui" => Contains(progress'.badges, "FirstCommit")]_vars

\* C19: a successful log unlocks hundred_pushups (century) exactly when the
\* reps of the Pushups rows dated today, the new row included, sum to at
\* least 100.
C19_CenturyAtHundredToday ==
  [][(OkLogStep /\ app = "tauri") =>
       (achievements'["hundred_pushups"] # NULL
          <=> \/ achievements["hundred_pushups"] # NULL
              \/ PushupsOn([exercises |-> exercises',
                            exercise_logs |-> exercise_logs'], clock') >= 100)]_vars

\* C20: a successful log unlocks skill_10, skill_25 and skill_50 exactly
\* when the new level of the exercise it updated is at least 10, 25 and 50.
C20_SkillAtLevel ==
  [][(OkLogStep /\ app = "tauri") =>
       LET id == exercise_logs'[Len(exercise_logs')].exercise_id
           new_level == exercises'[id].current_level
       IN /\ achievements'["skill_10"] # NULL
               <=> (achievements["skill_10"] # NULL \/ new_level >= 10)
          /\ achievements'["skill_25"] # NULL
               <=> (achievements["skill_25"] # NULL \/ new_level >= 25)
          /\ achievements'["skill_50"] # NULL
               <=> (achievements["skill_50"] # NULL \/ new_level >= 50)]_vars

\* C21: a successful log unlocks total_100 exactly when the sum of
\* current_level over all exercises after the log, which is the total_level
\* that get_stats reports, is at least 100.
C21_TotalHundredAtSum ==
  [][(OkLogStep /\ app = "tauri") =>
       (achievements'["total_100"] # NULL
          <=> \/ achievements["total_100"] # NULL
              \/ get_stats(DBNext).total_level >= 100)]_vars

\* C22: a successful log unlocks variety exactly when at least 5 distinct
\* exercises have been logged up to and including this log, those that were
\* deleted afterwards included.
C22_VarietyAtFiveEverLogged ==
  [][(OkLogStep /\ app = "tauri") =>
       (achievements'["variety"] # NULL
          <=> (achievements["variety"] # NULL \/ Cardinality(loc') >= 5))]_vars

\* the keys unlocked by the step, and the badges awarded by it
UnlockedByStep ==
  {k \in AchKeySet : achievements[k] = NULL /\ achievements'[k] # NULL}

AwardedByStep ==
  {b \in {BadgeOrder[i] : i \in 1..Len(BadgeOrder)} :
     Contains(progress'.badges, b) /\ ~Contains(progress.badges, b)}

\* C23: the list of unlocks that a successful log returns to its caller
\* (last.new_badges; LogExerciseResult of the SQLite engine has no such
\* list, its caller receives none) holds exactly the achievements that the
\* call unlocked.
C23_ReturnsNewUnlocks ==
  [][OkLogStep =>
       LET returned == {last'.new_badges[i] : i \in 1..Len(last'.new_badges)}
       IN /\ app = "tauri" => returned = UnlockedByStep
          /\ app = "egui" => returned = AwardedByStep]_vars

\* the databases between log calls: the initial one and those left by one
\* or two complete log calls of the application's process
AfterLog(d) ==
  {log_exercise(d, 1, ConcReps, [k \in 1..5 |-> clock], "none").db,
   quick_log(d, 1, ConcReps, [k \in 1..3 |-> clock], {}).db}

BetweenLogs ==
  LET one == {init_database} \cup AfterLog(init_database)
  IN one \cup UNION {AfterLog(d) : d \in one}

\* C24: what a reader of the statistics is given, in the application's
\* process or in the CLI process, is the statistics of a state before or
\* after a log call, never of a state in the middle of one.
C24_ReadersSeeWholeTransactions ==
  last.op = "stats" =>
    \E d \in BetweenLogs :
      last.seen = IF last.who = "cli" THEN CliView(get_stats(d)) ELSE get_stats(d)

\* C25: an import that is rejected leaves the exercises, the logs, the
\* streak and the achievements (the progress of the badge engine) as they
\* were, and an import that is accepted leaves no log row that refers to an
\* exercise missing from the catalog.
C25_RejectedImportChangesNothing ==
  [][last'.op = "import" =>
       /\ last'.status # "Ok" => UNCHANGED <<tauriVars, progress>>
       /\ last'.status = "Ok" =>
            \A i \in DOMAIN exercise_logs' :
              exercise_logs'[i].exercise_id \in DOMAIN exercises']_vars

\* the state that a reset is to leave: no log, the seeded catalog with no
\* XP at level 1, no streak, every achievement locked
FreshAfterStep ==
  /\ exercise_logs' = << >>
  /\ Cardinality(DOMAIN exercises') = Len(SeedCatalog)
  /\ {exercises'[i] : i \in DOMAIN exercises'}
       = {NewRow(SeedCatalog[k].name, SeedCatalog[k].xp_per_rep) :
            k \in 1..Len(SeedCatalog)}
  /\ user_stats' = [current_streak |-> 0, longest_streak |-> 0,
                    last_exercise_date |-> NULL]
  /\ \A k \in AchKeySet : achievements'[k] = NULL

\* C26: a reset that succeeds leaves the fresh state (the default progress
\* in the badge engine), and a reset that fails leaves the state as it was.
C26_ResetIsAllOrNothing ==
  [][last'.op = "reset" =>
       /\ (last'.status = "Ok" /\ app = "tauri") => FreshAfterStep
       /\ (last'.status = "Ok" /\ app = "egui") => progress' = DefaultProgress
       /\ last'.status # "Ok" => UNCHANGED <<tauriVars, progress>>]_vars

\* C27: across log calls the total_xp of every exercise is never negative
\* and never lower than it was.
C27_TotalXpNeverDecreases ==
  [][last'.op = "log" =>
       \A i \in DOMAIN exercises \cap DOMAIN exercises' :
         /\ exercises'[i].total_xp >= 0
         /\ exercises'[i].total_xp >= exercises[i].total_xp]_vars

\* the number of consecutive days, ending on day d, that are all in days
RECURSIVE RunEndingOn(_, _)
RunEndingOn(days, d) == IF d \in days THEN 1 + RunEndingOn(days, d - 1) ELSE 0

\* the days that have a log row, and the days that have an entry of the
\* badge engine
LogDays == {exercise_logs[i].logged_at : i \in DOMAIN exercise_logs}

EntryDays ==
  UNION {{progress.daily_history[dt].exercises[i].completed_at :
            i \in DOMAIN progress.daily_history[dt].exercises} :
         dt \in DOMAIN progress.daily_history}

\* C28: under a clock that never goes back, current_streak is the number of
\* consecutive days ending on last_exercise_date that each have a log entry,
\* and it is 0 exactly when nothing has been logged.
C28_StreakCountsLoggedDays ==
  /\ app = "tauri" =>
       /\ user_stats.current_streak = RunEndingOn(LogDays, user_stats.last_exercise_date)
       /\ user_stats.current_streak = 0 <=> exercise_logs = << >>
  /\ app = "egui" =>
       /\ progress.current_streak = RunEndingOn(EntryDays, progress.last_exercise_date)
       /\ progress.current_streak = 0 <=> progress.total_exercises = 0

\* text contains part as a run of consecutive characters
ContainsText(text, part) ==
  \E start \in 1..(Len(text) + 1) :
    /\ start + Len(part) - 1 <= Len(text)
    /\ SubSeq(text, start, start + Len(part) - 1) = part

\* C29: find_exercise returns an exercise whose name equals the search
\* ignoring case when there is one; otherwise an exercise whose name
\* contains the search ignoring case when there is one; otherwise nothing.
C29_ExactThenSubstring ==
  loc.fn = "find_exercise" =>
    LET exact == {i \in DOMAIN exercises :
                    Lower(exercises[i].name) = Lower(loc.arg)}
        containing == {i \in DOMAIN exercises :
                         ContainsText(Lower(exercises[i].name), Lower(loc.arg))}
    IN IF exact # {} THEN loc.result \in exact
       ELSE IF containing # {} THEN loc.result \in containing
       ELSE loc.result = NULL

\* C30: the progress, its file and the tables change only in a step that
\* is a log call made from the tray menu; no step of the scheduler thread
\* and no message received from it changes them.
C30_SchedulerChangesNothing ==
  [][(progress' # progress \/ file' # file \/ tauriVars' # tauriVars) =>
       (last'.op = "log" /\ last'.who = "egui" /\ EguiLogStep
          /\ UNCHANGED <<pc, loc>>)]_vars

\* a reminder has been received after an exercise was logged
C30_Witness ==
  /\ last.op = "ExerciseReminder"
  /\ last.who = "scheduler"
  /\ last.reps > 0
  /\ progress.total_exercises = 1
  /\ pc.scheduler = "running"

\* the ids of the exercises that the log rows refer to
LoggedIds(logs) == {logs[i].exercise_id : i \in DOMAIN logs}

\* C31: every step leaves every log row with an exercise of the catalog; a
\* delete_exercise call, failed or not, removes the exercise and its log
\* rows together or removes neither.
C31_LogsReferToCatalog ==
  [][/\ LoggedIds(exercise_logs') \subseteq DOMAIN exercises'
     /\ last'.op = "delete" =>
          \/ UNCHANGED <<exercises, exercise_logs>>
          \/ \E id \in DOMAIN exercises :
               /\ DOMAIN exercises' = DOMAIN exercises \ {id}
               /\ id \notin LoggedIds(exercise_logs')]_vars

\* C32: a successful log call uses one day throughout: the date of the row
\* it appends is the date stored as last_exercise_date, the streak is the
\* result of the transition run with that date as today and the day before
\* it as yesterday, and the century rule counts the pushups of that date.
\* In the badge engine the entry of the call is dated as the day it is
\* filed under.
C32_OneTodayPerCall ==
  [][/\ (TauriLogStep /\ last'.op = "log" /\ last'.status = "Ok") =>
          LET today == exercise_logs'[Len(exercise_logs')].logged_at
          IN /\ user_stats'.last_exercise_date = today
             /\ user_stats'.current_streak =
                  new_streak(user_stats.last_exercise_date,
                             user_stats.current_streak, today, today)
             /\ (last'.who = "gui" /\ achievements.hundred_pushups = NULL) =>
                  (achievements'.hundred_pushups # NULL
                     <=> PushupsOn(DBNext, today) >= 100)
     /\ EguiLogStep =>
          LET today == progress'.last_exercise_date
              filed == progress'.daily_history[today].exercises
          IN filed[Len(filed)].completed_at = today]_vars

\* the streak transition of the specification from (last_date, streak,
\* longest) to (streak2, longest2) on the day today
StreakTransition(last_date, streak, longest, today, streak2, longest2) ==
  /\ last_date = NULL => streak2 = 1
  /\ (last_date # NULL /\ last_date = today - 1) => streak2 = streak + 1
  /\ longest2 = max(longest, streak2)

\* C33: every successful log call, whatever its reps, stores a day of the
\* call as last_exercise_date, sets the streak to 1 when nothing was logged
\* before, raises it by exactly 1 when the last active date is the day
\* before the stored one, and leaves longest_streak the larger of its old
\* value and the new streak.
C33_StreakTransitionPerLog ==
  [][/\ (TauriLogStep /\ last'.op = "log" /\ last'.status = "Ok") =>
          /\ user_stats'.last_exercise_date \in clock..clock'
          /\ StreakTransition(user_stats.last_exercise_date,
                              user_stats.current_streak,
                              user_stats.longest_streak,
                              user_stats'.last_exercise_date,
                              user_stats'.current_streak,
                              user_stats'.longest_streak)
     /\ EguiLogStep =>
          /\ progress'.last_exercise_date \in clock..clock'
          /\ StreakTransition(progress.last_exercise_date,
                              progress.current_streak,
                              progress.longest_streak,
                              progress'.last_exercise_date,
                              progress'.current_streak,
                              progress'.longest_streak)]_vars

\* the entries of the badge engine's daily history, day by day
EntriesOn(p, dt) ==
  IF dt \in DOMAIN p.daily_history THEN p.daily_history[dt].exercises ELSE << >>

\* C34: a successful log of exercise A (a step that changes the ledger and
\* leaves the record of a successful log call) appends exactly one log entry; the
\* earlier entries stay as they were and in their order, the catalog keeps
\* its exercises, and total_xp, current_level and xp_per_rep of every
\* exercise other than A are unchanged.  In the badge engine one entry is
\* added to one day, the other entries stay, and the lifetime counts of the
\* other exercise types are unchanged.
C34_LogAppendsOneEntry ==
  [][/\ (last'.op = "log" /\ last'.status = "Ok" /\ tauriVars' # tauriVars) =>
          /\ Len(exercise_logs') = Len(exercise_logs) + 1
          /\ IsPrefix(exercise_logs, exercise_logs')
          /\ DOMAIN exercises' = DOMAIN exercises
          /\ \A i \in DOMAIN exercises :
               i # exercise_logs'[Len(exercise_logs')].exercise_id
                 => exercises'[i] = exercises[i]
     /\ (last'.op = "log" /\ last'.status = "Ok" /\ progress' # progress) =>
          /\ \A dt \in DOMAIN progress.daily_history :
               /\ dt \in DOMAIN progress'.daily_history
               /\ IsPrefix(EntriesOn(progress, dt), EntriesOn(progress', dt))
          /\ \E dt \in DOMAIN progress'.daily_history :
               /\ Len(EntriesOn(progress', dt)) = Len(EntriesOn(progress, dt)) + 1
               /\ \A d2 \in DOMAIN progress'.daily_history \ {dt} :
                    EntriesOn(progress', d2) = EntriesOn(progress, d2)
               /\ LET e == EntriesOn(progress', dt)[Len(EntriesOn(progress', dt))]
                  IN \A ty \in ExerciseTypes \ {e.exercise_type} :
                       GetOr0(progress'.lifetime_counts, ty)
                         = GetOr0(progress.lifetime_counts, ty)]_vars

\* a second exercise has been added and logged after a log of the first
C34_Witness ==
  /\ last.op = "log" /\ last.status = "Ok"
  /\ Len(exercise_logs) = 2
  /\ exercise_logs[1].exercise_id # exercise_logs[2].exercise_id
  /\ exercises[exercise_logs[1].exercise_id].total_xp > 0

\* the sum of val(e) over the entries e of the sequence entries
SumEntries(entries, val(_)) ==
  SumOver([i \in DOMAIN entries |-> val(entries[i])], DOMAIN entries)

\* the sum of val(day) over the days of the daily history of p
SumDays(p, val(_)) ==
  SumOver([dt \in DOMAIN p.daily_history |-> val(p.daily_history[dt])],
          DOMAIN p.daily_history)

\* the reps of the entries of exercise type ty among entries
RepsOfType(entries, ty) ==
  SumEntries(entries, LAMBDA e : IF e.exercise_type = ty THEN e.reps ELSE 0)

C36_ConcurrentSavesInstallProgress ==
  [][/\ (\E p \in SaveThreads : pc[p] = "written" /\ pc'[p] = "idle") =>
          /\ last'.status = "Ok"
          /\ file' = [exists |-> TRUE, contents |-> progress']
     /\ (\A p \in SaveThreads : pc'[p] = "idle") =>
          file' = [exists |-> TRUE, contents |-> progress']]_vars

\* a step in which the scheduler thread sends an ExerciseReminder
SendsReminder ==
  /\ Len(loc'.channel) = Len(loc.channel) + 1
  /\ loc'.channel[Len(loc'.channel)].kind = "ExerciseReminder"

\* C37: the scheduler's enabled flag always equals reminders.enabled of the
\* live configuration, and the scheduler thread sends no ExerciseReminder
\* while reminders.enabled is off.
C37_ToggleStopsReminders ==
  [][/\ loc'.enabled = loc'.reminders_enabled
     /\ SendsReminder => loc.reminders_enabled]_vars

\* in the messages sent, Stopped is followed by no ExerciseReminder until
\* the next Started
NoReminderAfterStopped ==
  \A i, j \in DOMAIN loc.sent :
    (i < j /\ loc.sent[i] = "Stopped" /\ loc.sent[j] = "ExerciseReminder")
      => \E k \in (i + 1)..(j - 1) : loc.sent[k] = "Started"

\* a step that sends kind on the channel
Sends(kind) ==
  /\ Len(loc'.sent) = Len(loc.sent) + 1
  /\ loc'.sent[Len(loc'.sent)] = kind

\* C38: after stop() on a running scheduler the thread terminates and
\* stop() returns; the step in which the thread terminates sends Stopped;
\* the thread sends a reminder only after it sent Started; no
\* ExerciseReminder is on the channel after Stopped (until a next Started);
\* start() on a running scheduler spawns no second thread.
C38_StopTerminatesThread ==
  /\ [](NoReminderAfterStopped /\ loc.threads <= 1)
  /\ [][/\ (pc.thread # "terminated" /\ pc'.thread = "terminated")
             => Sends("Stopped")
        /\ (pc.thread = "in_loop" /\ Sends("ExerciseReminder"))
             => \E i \in DOMAIN loc.sent : loc.sent[i] = "Started"]_vars
  /\ (pc.owner = "joining") ~> (pc.owner = "idle" /\ pc.thread = "terminated")

TrayLabel(exercise_id) ==
  CASE exercise_id = 1 -> Pushups
    [] exercise_id = 8 -> << "S", "q", "u", "a", "t", "s" >>
    [] exercise_id = 3 -> Situps
    [] exercise_id = 14 ->
         << "J", "u", "m", "p", "i", "n", "g", " ", "J", "a", "c", "k", "s" >>
    [] exercise_id = 19 ->
         << "N", "e", "c", "k", " ", "S", "t", "r", "e", "t", "c", "h", "e", "s" >>
    [] exercise_id = 21 ->
         << "W", "r", "i", "s", "t", " ", "C", "i", "r", "c", "l", "e", "s" >>
    [] exercise_id = 20 ->
         << "S", "h", "o", "u", "l", "d", "e", "r", " ", "S", "h", "r", "u", "g", "s" >>

\* C40: a tray quick-log item always finds an exercise, and the entry it
\* appends is charged to the exercise that has the name of its menu.
C40_TrayItemLogsItsExercise ==
  [][(last'.op = "log" /\ last'.who = "tray") =>
       /\ last'.status # "NotFound"
       /\ TauriLogStep =>
            LET row == exercise_logs'[Len(exercise_logs')]
            IN \E item \in TrayMenu :
                 /\ item[2] = row.reps
                 /\ row.exercise_id \in DOMAIN exercises'
                 /\ exercises'[row.exercise_id].name = TrayLabel(item[1])]_vars

====
